---- MODULE Spec2Model ----
(***************************************************************************)
(* A model of the ETL framework: the record envelope, the parsers          *)
(* (JsonParser, BsonParser), the five transformers (DataCleaner,           *)
(* Flattener, FieldMapper, TypeConverter, MetadataEnricher) built on       *)
(* BaseTransformer, and ETLPipeline.run, which chains them.                *)
(*                                                                         *)
(* Python values are tagged records:                                       *)
(*   None  [t |-> "null"]          str   [t |-> "str",  s |-> "..."]       *)
(*   int   [t |-> "int", n |-> 3]  bool  [t |-> "bool", b |-> TRUE]        *)
(*   float [t |-> "float", c |-> hundredths]                               *)
(*   list  [t |-> "list", l |-> <<v1, ...>>]                               *)
(*   dict  [t |-> "dict", d |-> <<[k |-> key, v |-> value], ...>>]         *)
(*         (insertion ordered, keys unique, as a Python dict)              *)
(*   a metadata dict lives on the heap, because the transformers share it  *)
(*   between their input and output records and mutate it in place: a      *)
(*   record holds [t |-> "ref", id |-> n] and heap[n] is the dict's items. *)
(***************************************************************************)
EXTENDS Integers, Sequences, FiniteSets, TLC

\* ------------------------------------------------------------------ bounds
MaxBatch == 2
MaxFields == 2
MaxMutations == 1

\* ------------------------------------------------------------------ values
None == [t |-> "null"]
VStr(s) == [t |-> "str", s |-> s]
VInt(n) == [t |-> "int", n |-> n]
VFloat(c) == [t |-> "float", c |-> c]
VBool(b) == [t |-> "bool", b |-> b]
VList(l) == [t |-> "list", l |-> l]
VDict(d) == [t |-> "dict", d |-> d]
VRef(n) == [t |-> "ref", id |-> n]
KV(k, v) == [k |-> k, v |-> v]

IsNone(v) == v.t = "null"
IsStr(v) == v.t = "str"
IsDict(v) == v.t = "dict"
IsList(v) == v.t = "list"

\* dict operations on the item sequence d
DKeys(d) == {d[i].k : i \in DOMAIN d}
DHas(d, k) == \E i \in DOMAIN d : d[i].k = k
DIndex(d, k) == CHOOSE i \in DOMAIN d : d[i].k = k
DGet(d, k) == d[DIndex(d, k)].v
DGetOr(d, k, default) == IF DHas(d, k) THEN DGet(d, k) ELSE default
\* d[k] = v: an existing key keeps its position, a new key goes last
DSet(d, k, v) ==
    IF DHas(d, k) THEN [d EXCEPT ![DIndex(d, k)] = KV(k, v)]
    ELSE Append(d, KV(k, v))

\* Op applied to the value of v, which is evaluated once whatever the number
\* of times Op uses it (the loops below hand their running state on this way)
WithValue(v, Op(_)) == CHOOSE r \in {Op(x) : x \in {v}} : TRUE

\* bool(v): Python truthiness
Truthy(v) ==
    CASE v.t = "null" -> FALSE
      [] v.t = "str" -> v.s # ""
      [] v.t = "int" -> v.n # 0
      [] v.t = "float" -> v.c # 0
      [] v.t = "bool" -> v.b
      [] v.t = "list" -> Len(v.l) > 0
      [] v.t = "dict" -> Len(v.d) > 0
      [] OTHER -> TRUE


Max(a, b) == IF a >= b THEN a ELSE b

\* the greatest number of a finite, non-empty set of numbers
Greatest(S) == CHOOSE m \in S : \A n \in S : n <= m

\* ------------------------------------------------- str(), repr(), json.dumps
\* repr of a float held as hundredths: 3000 -> "30.0", 9999 -> "99.99"
FloatRepr(c) ==
    LET a == IF c < 0 THEN 0 - c ELSE c
        whole == a \div 100
        frac == a % 100
        digits == IF frac % 10 = 0 THEN ToString(frac \div 10)
                  ELSE ToString(frac \div 10) \o ToString(frac % 10)
    IN (IF c < 0 THEN "-" ELSE "") \o ToString(whole) \o "." \o digits

\* A datetime is [t |-> "datetime", s |-> its str(), "YYYY-MM-DD HH:MM:SS"].
VDatetime(s) == [t |-> "datetime", s |-> s]
\* repr() and isoformat() of the datetimes of the model
DatetimeRepr(s) ==
    CASE s = "2024-01-16 00:00:00" -> "datetime.datetime(2024, 1, 16, 0, 0)"
      [] s = "2024-01-15 10:30:00" -> "datetime.datetime(2024, 1, 15, 10, 30)"
      [] s = "2024-01-02 00:00:00" -> "datetime.datetime(2024, 1, 2, 0, 0)"
      [] s = "2024-02-13 00:00:00" -> "datetime.datetime(2024, 2, 13, 0, 0)"
DatetimeIso(s) ==
    CASE s = "2024-01-16 00:00:00" -> "2024-01-16T00:00:00"
      [] s = "2024-01-15 10:30:00" -> "2024-01-15T10:30:00"
      [] s = "2024-01-02 00:00:00" -> "2024-01-02T00:00:00"
      [] s = "2024-02-13 00:00:00" -> "2024-02-13T00:00:00"

RECURSIVE PyRepr(_), PyReprList(_, _), PyReprItems(_, _)
\* repr(v), which str() of a list or dict uses for the elements
PyRepr(v) ==
    CASE v.t = "null" -> "None"
      [] v.t = "str" -> "'" \o v.s \o "'"
      [] v.t = "int" -> ToString(v.n)
      [] v.t = "float" -> FloatRepr(v.c)
      [] v.t = "bool" -> IF v.b THEN "True" ELSE "False"
      [] v.t = "list" -> "[" \o PyReprList(v.l, 1) \o "]"
      [] v.t = "dict" -> "{" \o PyReprItems(v.d, 1) \o "}"
      [] v.t = "datetime" -> DatetimeRepr(v.s)
PyReprList(l, i) ==
    IF i > Len(l) THEN ""
    ELSE (IF i > 1 THEN ", " ELSE "") \o PyRepr(l[i]) \o PyReprList(l, i + 1)
PyReprItems(d, i) ==
    IF i > Len(d) THEN ""
    ELSE (IF i > 1 THEN ", " ELSE "") \o "'" \o d[i].k \o "': " \o PyRepr(d[i].v)
         \o PyReprItems(d, i + 1)

\* str(v): a string is itself, anything else prints as its repr
PyStr(v) == IF v.t \in {"str", "datetime"} THEN v.s ELSE PyRepr(v)

RECURSIVE JsonDumps(_), JsonDumpsList(_, _), JsonDumpsItems(_, _)
\* json.dumps(v) with the default separators
JsonDumps(v) ==
    CASE v.t = "null" -> "null"
      [] v.t = "str" -> "\"" \o v.s \o "\""
      [] v.t = "int" -> ToString(v.n)
      [] v.t = "float" -> FloatRepr(v.c)
      [] v.t = "bool" -> IF v.b THEN "true" ELSE "false"
      [] v.t = "list" -> "[" \o JsonDumpsList(v.l, 1) \o "]"
      [] v.t = "dict" -> "{" \o JsonDumpsItems(v.d, 1) \o "}"
JsonDumpsList(l, i) ==
    IF i > Len(l) THEN ""
    ELSE (IF i > 1 THEN ", " ELSE "") \o JsonDumps(l[i]) \o JsonDumpsList(l, i + 1)
JsonDumpsItems(d, i) ==
    IF i > Len(d) THEN ""
    ELSE (IF i > 1 THEN ", " ELSE "") \o "\"" \o d[i].k \o "\": " \o JsonDumps(d[i].v)
         \o JsonDumpsItems(d, i + 1)

\* ---------------------------------------------------------------- Flattener
\* A flattener configuration F is the record of the attributes __init__ reads:
\*   separator, max_depth, array_handling, preserve_arrays, null_value_handling,
\*   flatten_objects, flatten_arrays, array_index_format, custom_flatteners.
\* array_index_format "[{index}]" is held as the text before and after {index}.
\* The running state st is [result |-> items of the result dict, stats |-> counters].
FlattenerDefaults ==
    [separator |-> ".", max_depth |-> 10, array_handling |-> "index",
     preserve_arrays |-> FALSE, null_value_handling |-> "keep",
     flatten_objects |-> TRUE, flatten_arrays |-> TRUE,
     array_index_format |-> [pre |-> "[", post |-> "]"],
     custom_flatteners |-> <<>>]

_create_field_name(prefix, key, F) ==
    IF prefix = "" THEN key ELSE prefix \o F.separator \o key

\* _handle_null_value that takes every policy for "remove"
_handle_null_value_removing(st, field_name, F) == st

_handle_null_value(st, field_name, F) ==
    CASE F.null_value_handling = "keep" ->
            [st EXCEPT !.result = DSet(@, field_name, None)]
      [] F.null_value_handling = "empty_string" ->
            [st EXCEPT !.result = DSet(@, field_name, VStr(""))]
      [] OTHER -> st

_apply_custom_flattener(value, rule) ==
    LET rule_type == DGetOr(rule, "type", "string")
    IN CASE rule_type = "string" -> VStr(PyStr(value))
         [] rule_type = "json" ->
                IF IsNone(value) THEN None ELSE VStr(JsonDumps(value))
         [] rule_type = "first_element" /\ IsList(value) ->
                IF Len(value.l) > 0 THEN value.l[1] ELSE None
         [] rule_type = "length" /\ value.t \in {"list", "dict", "str"} ->
                VInt(CASE value.t = "list" -> Len(value.l)
                       [] value.t = "dict" -> Len(value.d)
                       [] OTHER -> Len(value.s))
         [] rule_type = "keys" /\ IsDict(value) ->
                VList([i \in DOMAIN value.d |-> VStr(value.d[i].k)])
         [] OTHER -> value

\* result[field_name] = value; stats["fields_created"] += 1
SetField(st, field_name, value) ==
    [result |-> DSet(st.result, field_name, value),
     stats |-> [st.stats EXCEPT !.fields_created = @ + 1]]

RECURSIVE _flatten_dict(_, _, _, _, _), FlattenItems(_, _, _, _, _, _),
          _flatten_value(_, _, _, _, _), _flatten_array(_, _, _, _, _),
          FlattenElems(_, _, _, _, _, _), ConcatElems(_, _, _, _, _, _, _, _)

\* _flatten_dict that tests the depth against max_depth + 1
_flatten_dict_late(obj, st, prefix, depth, F) ==
    LET st1 == [st EXCEPT !.stats.max_depth_reached = Max(@, depth)]
    IN IF depth >= F.max_depth + 1
       THEN [st1 EXCEPT !.result =
                DSet(@, IF prefix = "" THEN "deep_object" ELSE prefix,
                     VStr(PyStr(VDict(obj))))]
       ELSE FlattenItems(obj, 1, st1, prefix, depth, F)

_flatten_dict(obj, st, prefix, depth, F) ==
    LET st1 == [st EXCEPT !.stats.max_depth_reached = Max(@, depth)]
    IN IF depth >= F.max_depth
       THEN [st1 EXCEPT !.result =
                DSet(@, IF prefix = "" THEN "deep_object" ELSE prefix,
                     VStr(PyStr(VDict(obj))))]
       ELSE FlattenItems(obj, 1, st1, prefix, depth, F)

\* the loop "for key, value in obj.items()" of _flatten_dict, from item i on
FlattenItems(obj, i, st, prefix, depth, F) ==
    IF i > Len(obj) THEN st
    ELSE LET new_key == _create_field_name(prefix, obj[i].k, F)
             st2 == IF DHas(F.custom_flatteners, new_key)
                    THEN SetField(st, new_key,
                            _apply_custom_flattener(obj[i].v,
                                DGet(F.custom_flatteners, new_key)))
                    ELSE _flatten_value(obj[i].v, st, new_key, depth, F)
         IN WithValue(st2, LAMBDA s : FlattenItems(obj, i + 1, s, prefix, depth, F))

_flatten_value(value, st, field_name, depth, F) ==
    CASE IsNone(value) -> _handle_null_value(st, field_name, F)
      [] ~IsNone(value) /\ IsDict(value) /\ F.flatten_objects ->
            IF Len(value.d) > 0
            THEN WithValue([st EXCEPT !.stats.objects_flattened = @ + 1],
                    LAMBDA s : _flatten_dict(value.d, s, field_name, depth + 1, F))
            ELSE SetField(st, field_name, VDict(<<>>))
      [] ~IsNone(value) /\ ~(IsDict(value) /\ F.flatten_objects)
            /\ IsList(value) /\ F.flatten_arrays ->
            IF F.preserve_arrays
            THEN SetField(st, field_name, VStr(PyStr(value)))
            ELSE _flatten_array(value.l, st, field_name, depth, F)
      [] OTHER -> SetField(st, field_name, value)

_flatten_array(arr, st, field_name, depth, F) ==
    IF Len(arr) = 0 THEN SetField(st, field_name, VList(<<>>))
    ELSE LET st1 == [st EXCEPT !.stats.arrays_flattened = @ + 1]
         IN CASE F.array_handling \in {"index", "enumerate"} ->
                    FlattenElems(arr, 1, st1, field_name, depth, F)
              [] F.array_handling = "concat" ->
                    ConcatElems(arr, 1, st1, field_name, depth, F, <<>>, 0)
              [] OTHER -> st1

\* the loops of the "index" and "enumerate" strategies, from element i on
\* (enumerate() counts from 0)
FlattenElems(arr, i, st, field_name, depth, F) ==
    IF i > Len(arr) THEN st
    ELSE LET name == IF F.array_handling = "index"
                     THEN field_name \o F.array_index_format.pre \o ToString(i - 1)
                          \o F.array_index_format.post
                     ELSE field_name \o "_" \o ToString(i - 1)
         IN WithValue(_flatten_value(arr[i], st, name, depth, F),
                      LAMBDA s : FlattenElems(arr, i + 1, s, field_name, depth, F))

\* the "concat" strategy: simple_values and complex_count are the loop's locals
ConcatElems(arr, i, st, field_name, depth, F, simple_values, complex_count) ==
    IF i > Len(arr)
    THEN IF Len(simple_values) > 0
         THEN LET RECURSIVE Join(_)
                  Join(j) == IF j > Len(simple_values) THEN ""
                             ELSE (IF j > 1 THEN ", " ELSE "") \o simple_values[j]
                                  \o Join(j + 1)
              IN SetField(st, field_name, VStr(Join(1)))
         ELSE st
    ELSE CASE arr[i].t \in {"str", "int", "float", "bool"} ->
                ConcatElems(arr, i + 1, st, field_name, depth, F,
                            Append(simple_values, PyStr(arr[i])), complex_count)
           [] arr[i].t = "null" ->
                ConcatElems(arr, i + 1, st, field_name, depth, F,
                            Append(simple_values, ""), complex_count)
           [] OTHER ->
                WithValue(
                    _flatten_value(arr[i], st,
                        field_name \o "_complex_" \o ToString(complex_count), depth, F),
                    LAMBDA s : ConcatElems(arr, i + 1, s, field_name, depth, F,
                                           simple_values, complex_count + 1))

\* returns [result |-> flattened items, stats |-> the record's counters]
_flatten_record(record, F) ==
    _flatten_dict(record,
        [result |-> <<>>,
         stats |-> [objects_flattened |-> 0, arrays_flattened |-> 0,
                    fields_created |-> 0, max_depth_reached |-> 0]],
        "", 0, F)

\* ------------------------------------------------------------ str methods
\* str.strip(), str.lower(), the regular expressions and the number and date
\* parsers are tabulated over the strings the model's inputs hold.
Strip(s) ==
    CASE s = "  John  " -> "John"
      [] s = " " -> ""
      [] s = " 30.0 " -> "30.0"
      [] s = " abc " -> "abc"
      [] s = " A@B.CO " -> "A@B.CO"
      [] s = " a@b.co " -> "a@b.co"
      [] s = " N/A " -> "N/A"
      [] OTHER -> s

Lower(s) ==
    CASE s = "firstName" -> "firstname"
      [] s = "FirstName" -> "firstname"
      [] s = "John" -> "john"
      [] s = "  John  " -> "  john  "
      [] s = "A@B.CO" -> "a@b.co"
      [] s = " A@B.CO " -> " a@b.co "
      [] s = "Null" -> "null"
      [] s = "N/A" -> "n/a"
      [] s = "NYC" -> "nyc"
      [] s = "TRUE" -> "true"
      [] s = "X" -> "x"
      [] OTHER -> s

\* re.match(r"^[a-zA-Z0-9._%+-]+@[a-zA-Z0-9.-]+\.[a-zA-Z]{2,}$", s)
EmailPatternMatches(s) == s \in {"a@b.co", "A@B.CO"}
\* re.sub(r'[^\d\+]', '', s)
DigitsAndPlus(s) ==
    CASE s = "555-1234" -> "5551234"
      [] s = "5551234" -> "5551234"
      [] s = "30.0" -> "300"
      [] s = "0" -> "0"
      [] OTHER -> ""
\* re.match(r"^[\+]?[1-9][\d]{0,15}$", s)
PhonePatternMatches(s) == s \in {"5551234", "300"}

\* any(indicator in field_name.lower() for indicator in email_indicators)
_is_email_field(field_name) == Lower(field_name) \in {"email", "user.email"}
\* any(indicator in field_name.lower() for indicator in phone_indicators)
_is_phone_field(field_name) == Lower(field_name) \in {"phone"}

\* ------------------------------------------------------------ BaseTransformer
\* A batch is a value: VList of records, or anything else a caller passes.
\* A record that is an envelope is VDict(<<KV("data", ..), KV("metadata", ..)>>);
\* a metadata dict is VRef(n), with its items in heap[n].
\* A call returns [raised |-> FALSE, value |-> batch, heap |-> heap after] or
\* [raised |-> TRUE, error |-> str(e) of the exception, heap |-> heap after].
Raise(error, heap) == [raised |-> TRUE, error |-> error, heap |-> heap]
Return(value, heap) == [raised |-> FALSE, value |-> value, heap |-> heap]

validate_input(parsed_data) ==
    /\ IsList(parsed_data)
    /\ \A i \in DOMAIN parsed_data.l :
          LET record == parsed_data.l[i]
          IN /\ IsDict(record)
             /\ DHas(record.d, "data") /\ DHas(record.d, "metadata")
             /\ IsDict(DGet(record.d, "data"))
             /\ DGet(record.d, "metadata").t = "ref"

_extract_data_only(parsed_data) ==
    [i \in DOMAIN parsed_data.l |-> DGet(parsed_data.l[i].d, "data")]

Min(a, b) == IF a <= b THEN a ELSE b

\* _preserve_metadata with a loop that stops one record early
_preserve_metadata_dropping(original_records, transformed_data) ==
    [i \in 1..(Min(Len(original_records), Len(transformed_data)) - 1) |->
        VDict(<<KV("data", transformed_data[i]),
                KV("metadata", DGet(original_records[i].d, "metadata"))>>)]

\* zip() stops at the shorter of the two lists
_preserve_metadata(original_records, transformed_data) ==
    [i \in 1..Min(Len(original_records), Len(transformed_data)) |->
        VDict(<<KV("data", transformed_data[i]),
                KV("metadata", DGet(original_records[i].d, "metadata"))>>)]

NoAppend == "'NoneType' object has no attribute 'append'"

RECURSIVE AddInfoFrom(_, _, _, _)
\* the loop of _add_transformation_metadata from record i on: the metadata
\* dict of each record is changed in place; append on a value that is not a
\* list raises, with the records before it already extended
AddInfoFrom(records, i, transformation_info, heap) ==
    IF i > Len(records) THEN Return(VList(records), heap)
    ELSE LET id == DGet(records[i].d, "metadata").id
             m0 == heap[id]
             m1 == IF DHas(m0, "transformations_applied") THEN m0
                   ELSE DSet(m0, "transformations_applied", VList(<<>>))
             old == DGet(m1, "transformations_applied")
         IN IF ~IsList(old) THEN Raise(NoAppend, [heap EXCEPT ![id] = m1])
            ELSE AddInfoFrom(records, i + 1, transformation_info,
                    [heap EXCEPT ![id] =
                        DSet(m1, "transformations_applied",
                             VList(Append(old.l, transformation_info)))])

\* _add_transformation_metadata that assigns [transformation_info] instead of
\* appending to the list
_add_transformation_metadata_overwriting(records, transformation_info, heap) ==
    Return(VList(records),
        [n \in DOMAIN heap |->
            IF \E i \in DOMAIN records : DGet(records[i].d, "metadata").id = n
            THEN DSet(heap[n], "transformations_applied",
                      VList(<<transformation_info>>))
            ELSE heap[n]])

\* _add_transformation_metadata that first fills in a missing source_type
_add_transformation_metadata_defaulting(records, transformation_info, heap) ==
    AddInfoFrom(records, 1, transformation_info,
        [n \in DOMAIN heap |->
            IF (\E i \in DOMAIN records : DGet(records[i].d, "metadata").id = n)
                    /\ ~DHas(heap[n], "source_type")
            THEN DSet(heap[n], "source_type", VStr("unknown"))
            ELSE heap[n]])

_add_transformation_metadata(records, transformation_info, heap) ==
    AddInfoFrom(records, 1, transformation_info, heap)

InvalidInput ==
    "Invalid input format - expected parsed data with data and metadata"
InvalidEmail == "Invalid email format"
InvalidPhone == "Invalid phone format"
ConversionFailed == "Type conversion failed"

\* the indices of the per-record results that raised, and the first of them
Raisers(results) == {i \in DOMAIN results : results[i].raised}
First(S) == CHOOSE i \in S : \A j \in S : i <= j
\* sum of counter key over the per-record statistics
RECURSIVE SumStat(_, _, _)
SumStat(results, key, i) ==
    IF i > Len(results) THEN 0
    ELSE results[i].stats[key] + SumStat(results, key, i + 1)

\* ---------------------------------------------------------------- DataCleaner
\* A cleaner configuration C holds the attributes __init__ reads; validation_rules
\* is the set of the rule names configured (the patterns are the defaults).
DataCleanerDefaults ==
    [trim_whitespace |-> TRUE, remove_empty_strings |-> TRUE,
     standardize_nulls |-> TRUE, validate_emails |-> FALSE,
     clean_phone_numbers |-> FALSE,
     null_values |-> {"", "null", "NULL", "None", "N/A", "n/a", "undefined",
                      "UNDEFINED"},
     validation_rules |-> {"email", "phone"},
     strict_validation |-> FALSE]

CleanStats0 ==
    [fields_trimmed |-> 0, nulls_standardized |-> 0, emails_validated |-> 0,
     phones_cleaned |-> 0, validation_errors |-> 0]

\* the helpers of DataCleaner return [raised, value, stats] (stats as updated
\* up to the point of the raise)
_clean_email(email, stats, C) ==
    IF email = "" THEN [raised |-> FALSE, value |-> email, stats |-> stats]
    ELSE LET cleaned_email == Strip(Lower(email))
         IN IF "email" \in C.validation_rules
            THEN IF EmailPatternMatches(cleaned_email)
                 THEN [raised |-> FALSE, value |-> cleaned_email,
                       stats |-> [stats EXCEPT !.emails_validated = @ + 1]]
                 ELSE [raised |-> C.strict_validation, value |-> email,
                       stats |-> [stats EXCEPT !.validation_errors = @ + 1],
                       error |-> InvalidEmail]
            ELSE [raised |-> FALSE, value |-> cleaned_email, stats |-> stats]

_clean_phone_number(phone, stats, C) ==
    IF phone = "" THEN [raised |-> FALSE, value |-> phone, stats |-> stats]
    ELSE LET cleaned_phone == DigitsAndPlus(Strip(phone))
         IN IF "phone" \in C.validation_rules
            THEN IF PhonePatternMatches(cleaned_phone)
                 THEN [raised |-> FALSE, value |-> cleaned_phone,
                       stats |-> [stats EXCEPT !.phones_cleaned = @ + 1]]
                 ELSE [raised |-> C.strict_validation, value |-> phone,
                       stats |-> [stats EXCEPT !.validation_errors = @ + 1],
                       error |-> InvalidPhone]
            ELSE [raised |-> FALSE, value |-> cleaned_phone,
                  stats |-> [stats EXCEPT !.phones_cleaned = @ + 1]]

_clean_field_value(field_name, value, stats, C) ==
    IF ~IsStr(value) THEN [raised |-> FALSE, value |-> value, stats |-> stats]
    ELSE LET trimmed == IF C.trim_whitespace THEN Strip(value.s) ELSE value.s
             stats1 == IF C.trim_whitespace /\ Len(trimmed) # Len(value.s)
                       THEN [stats EXCEPT !.fields_trimmed = @ + 1] ELSE stats
         IN IF C.standardize_nulls /\ trimmed \in C.null_values
            THEN [raised |-> FALSE, value |-> None,
                  stats |-> [stats1 EXCEPT !.nulls_standardized = @ + 1]]
            ELSE LET e == IF C.validate_emails /\ _is_email_field(field_name)
                          THEN _clean_email(trimmed, stats1, C)
                          ELSE [raised |-> FALSE, value |-> trimmed, stats |-> stats1]
                 IN IF e.raised THEN [e EXCEPT !.value = VStr(e.value)]
                    ELSE LET ph == IF C.clean_phone_numbers /\ _is_phone_field(field_name)
                                   THEN _clean_phone_number(e.value, e.stats, C)
                                   ELSE e
                         IN [ph EXCEPT !.value = VStr(ph.value)]

RECURSIVE CleanItems(_, _, _, _, _)
\* the loop of _clean_record from item i on; a raise ends it
CleanItems(record, i, cleaned_record, stats, C) ==
    IF i > Len(record)
    THEN [raised |-> FALSE, value |-> cleaned_record, stats |-> stats]
    ELSE LET r == _clean_field_value(record[i].k, record[i].v, stats, C)
         IN IF r.raised
            THEN [raised |-> TRUE, value |-> cleaned_record, stats |-> r.stats,
                  error |-> r.error]
            ELSE CleanItems(record, i + 1,
                    IF C.remove_empty_strings /\ r.value = VStr("")
                    THEN cleaned_record
                    ELSE DSet(cleaned_record, record[i].k, r.value),
                    r.stats, C)

_clean_record(record, C) == CleanItems(record, 1, <<>>, CleanStats0, C)

_get_active_rules(C) ==
    {r \in {"trim_whitespace", "remove_empty_strings", "standardize_nulls",
            "validate_emails", "clean_phone_numbers"} : C[r]}

DataCleaner_transform(C, parsed_data, heap, now) ==
    IF ~validate_input(parsed_data) THEN Raise(InvalidInput, heap)
    ELSE LET data_only == _extract_data_only(parsed_data)
             cleaned == [i \in DOMAIN data_only |-> _clean_record(data_only[i].d, C)]
         IN IF Raisers(cleaned) # {}
            THEN Raise(cleaned[First(Raisers(cleaned))].error, heap)
            ELSE LET cleaned_data == [i \in DOMAIN cleaned |-> VDict(cleaned[i].value)]
                     cleaning_stats ==
                        [k \in DOMAIN CleanStats0 \cup {"records_processed"} |->
                            IF k = "records_processed" THEN Len(cleaned)
                            ELSE SumStat(cleaned, k, 1)]
                     transformation_info ==
                        [type |-> "data_cleaning", timestamp |-> now,
                         transformer |-> "DataCleaner",
                         cleaning_stats |-> cleaning_stats,
                         rules_applied |-> _get_active_rules(C)]
                 IN _add_transformation_metadata(
                        _preserve_metadata(parsed_data.l, cleaned_data),
                        transformation_info, heap)

\* -------------------------------------------------------------- TypeConverter
\* float(s) of a stripped string, as hundredths; [ok |-> FALSE] is ValueError
ParseFloat(s) ==
    CASE s = "30.0" -> [ok |-> TRUE, c |-> 3000]
      [] s = "25" -> [ok |-> TRUE, c |-> 2500]
      [] s = "99.99" -> [ok |-> TRUE, c |-> 9999]
      [] s = "-1.5" -> [ok |-> TRUE, c |-> 0 - 150]
      [] s = "1" -> [ok |-> TRUE, c |-> 100]
      [] s = "0" -> [ok |-> TRUE, c |-> 0]
      [] OTHER -> [ok |-> FALSE]

\* int(x) of a float held as hundredths: truncation towards zero
TruncHundredths(c) == IF c >= 0 THEN c \div 100 ELSE 0 - ((0 - c) \div 100)

\* the first of the five strptime formats that parses the stripped string
ParseDatetime(s) ==
    CASE s = "2024-01-15 10:30:00" -> [ok |-> TRUE, s |-> "2024-01-15 10:30:00"]
      [] s = "2024-01-15T10:30:00" -> [ok |-> TRUE, s |-> "2024-01-15 10:30:00"]
      [] s = "2024-01-16" -> [ok |-> TRUE, s |-> "2024-01-16 00:00:00"]
      [] s = "01/02/2024" -> [ok |-> TRUE, s |-> "2024-01-02 00:00:00"]
      [] s = "13/02/2024" -> [ok |-> TRUE, s |-> "2024-02-13 00:00:00"]
      [] OTHER -> [ok |-> FALSE]

TypeConverterDefaults ==
    [type_conversions |-> <<>>, strict_mode |-> FALSE,
     default_values |-> <<KV("int", VInt(0)), KV("float", VFloat(0)),
                          KV("bool", VBool(FALSE)), KV("str", VStr("")),
                          KV("datetime", None)>>]

\* the helpers of TypeConverter return [raised, value, success]
Converted(value, success) == [raised |-> FALSE, value |-> value, success |-> success]

\* _handle_conversion_error that keeps the original value in non-strict mode
\* instead of looking the default of the target type up
_handle_conversion_error_keeping(target_type, field_name, original_value, T) ==
    IF T.strict_mode
    THEN [raised |-> TRUE,
          error |-> [field |-> field_name, target_type |-> target_type,
                     original_value |-> original_value],
          value |-> original_value, success |-> FALSE]
    ELSE Converted(original_value, FALSE)

_handle_conversion_error(target_type, field_name, original_value, T) ==
    IF T.strict_mode
    THEN [raised |-> TRUE,
          error |-> [field |-> field_name, target_type |-> target_type,
                     original_value |-> original_value],
          value |-> original_value, success |-> FALSE]
    ELSE Converted(DGetOr(T.default_values, target_type, original_value), FALSE)

\* value as a number in hundredths, for int, float and bool (a bool is an int)
NumberHundredths(value) ==
    CASE value.t = "int" -> value.n * 100
      [] value.t = "float" -> value.c
      [] value.t = "bool" -> IF value.b THEN 100 ELSE 0

_convert_value(value, target_type, field_name, T) ==
    IF IsNone(value) THEN Converted(None, TRUE)
    ELSE
    CASE target_type = "int" ->
            IF IsStr(value)
            THEN LET v == Strip(value.s)
                 IN IF v = "" THEN Converted(DGetOr(T.default_values, "int", VInt(0)), FALSE)
                    ELSE IF ParseFloat(v).ok
                         THEN Converted(VInt(TruncHundredths(ParseFloat(v).c)), TRUE)
                         ELSE _handle_conversion_error(target_type, field_name, VStr(v), T)
            ELSE IF value.t \in {"int", "float", "bool"}
                 THEN Converted(VInt(TruncHundredths(NumberHundredths(value))), TRUE)
                 ELSE _handle_conversion_error(target_type, field_name, value, T)
      [] target_type = "float" ->
            IF IsStr(value)
            THEN LET v == Strip(value.s)
                 IN IF v = "" THEN Converted(DGetOr(T.default_values, "float", VFloat(0)), FALSE)
                    ELSE IF ParseFloat(v).ok
                         THEN Converted(VFloat(ParseFloat(v).c), TRUE)
                         ELSE _handle_conversion_error(target_type, field_name, VStr(v), T)
            ELSE IF value.t \in {"int", "float", "bool"}
                 THEN Converted(VFloat(NumberHundredths(value)), TRUE)
                 ELSE _handle_conversion_error(target_type, field_name, value, T)
      [] target_type = "bool" ->
            IF value.t = "bool" THEN Converted(value, TRUE)
            ELSE IF IsStr(value)
            THEN LET value_lower == Strip(Lower(value.s))
                 IN IF value_lower \in {"true", "yes", "1", "on"}
                    THEN Converted(VBool(TRUE), TRUE)
                    ELSE IF value_lower \in {"false", "no", "0", "off", ""}
                    THEN Converted(VBool(FALSE), TRUE)
                    ELSE _handle_conversion_error(target_type, field_name, value, T)
            ELSE IF value.t \in {"int", "float"}
                 THEN Converted(VBool(Truthy(value)), TRUE)
                 ELSE _handle_conversion_error(target_type, field_name, value, T)
      [] target_type = "str" -> Converted(VStr(PyStr(value)), TRUE)
      [] target_type = "datetime" ->
            IF value.t = "datetime" THEN Converted(value, TRUE)
            ELSE IF IsStr(value) /\ ParseDatetime(Strip(value.s)).ok
                 THEN Converted(VDatetime(ParseDatetime(Strip(value.s)).s), TRUE)
                 ELSE _handle_conversion_error(target_type, field_name, value, T)
      [] OTHER -> Converted(value, FALSE)

ConvStats0 == [successful |-> 0, failed |-> 0, skipped |-> 0]

RECURSIVE ConvertItems(_, _, _, _, _)
\* the loop of _convert_record_types from item i on; a raise ends it
ConvertItems(record, i, converted_record, stats, T) ==
    IF i > Len(record)
    THEN [raised |-> FALSE, value |-> converted_record, stats |-> stats]
    ELSE IF DHas(T.type_conversions, record[i].k)
         THEN LET r == _convert_value(record[i].v,
                            DGet(T.type_conversions, record[i].k), record[i].k, T)
              IN IF r.raised
                 THEN [raised |-> TRUE, value |-> converted_record, stats |-> stats,
                       error |-> r.error]
                 ELSE ConvertItems(record, i + 1,
                        DSet(converted_record, record[i].k, r.value),
                        IF r.success THEN [stats EXCEPT !.successful = @ + 1]
                        ELSE [stats EXCEPT !.failed = @ + 1], T)
         ELSE ConvertItems(record, i + 1,
                DSet(converted_record, record[i].k, record[i].v),
                [stats EXCEPT !.skipped = @ + 1], T)

_convert_record_types(record, T) == ConvertItems(record, 1, <<>>, ConvStats0, T)

\* TypeConverter.transform that adds the entry to each record as soon as the
\* record is converted, so that a raise leaves the earlier records extended
TypeConverter_transform_eager(T, parsed_data, heap, now) ==
    IF ~validate_input(parsed_data) THEN Raise(InvalidInput, heap)
    ELSE LET data_only == _extract_data_only(parsed_data)
             converted == [i \in DOMAIN data_only |->
                              _convert_record_types(data_only[i].d, T)]
             n == IF Raisers(converted) # {} THEN First(Raisers(converted)) - 1
                  ELSE Len(converted)
             converted_data == [i \in 1..n |-> VDict(converted[i].value)]
             transformation_info ==
                [type |-> "type_conversion", timestamp |-> now,
                 transformer |-> "TypeConverter",
                 conversions_attempted |-> Len(T.type_conversions),
                 conversion_stats |->
                    [k \in DOMAIN ConvStats0 |->
                        SumStat(SubSeq(converted, 1, n), k, 1)],
                 strict_mode |-> T.strict_mode]
             added == _add_transformation_metadata(
                        _preserve_metadata(parsed_data.l, converted_data),
                        transformation_info, heap)
         IN IF Raisers(converted) # {} THEN Raise(ConversionFailed, added.heap)
            ELSE added

TypeConverter_transform(T, parsed_data, heap, now) ==
    IF ~validate_input(parsed_data) THEN Raise(InvalidInput, heap)
    ELSE LET data_only == _extract_data_only(parsed_data)
             converted == [i \in DOMAIN data_only |->
                              _convert_record_types(data_only[i].d, T)]
         IN IF Raisers(converted) # {}
            THEN Raise(ConversionFailed, heap)
            ELSE LET converted_data ==
                        [i \in DOMAIN converted |-> VDict(converted[i].value)]
                     transformation_info ==
                        [type |-> "type_conversion", timestamp |-> now,
                         transformer |-> "TypeConverter",
                         conversions_attempted |-> Len(T.type_conversions),
                         conversion_stats |->
                            [k \in DOMAIN ConvStats0 |-> SumStat(converted, k, 1)],
                         strict_mode |-> T.strict_mode]
                 IN _add_transformation_metadata(
                        _preserve_metadata(parsed_data.l, converted_data),
                        transformation_info, heap)

\* ---------------------------------------------------------------- FieldMapper
\* field_mappings is a dict source_type -> (dict target_field -> list of source
\* field names), each dict as its items in declaration order. A mapper M is
\* [field_mappings, keep_unmapped_fields, case_sensitive, reverse_mapping].
RECURSIVE ReverseAliases(_, _, _, _, _), ReverseTargets(_, _, _, _),
          ReverseSources(_, _, _, _)

\* "for source_field in source_fields", from alias j on, into the index rm
ReverseAliases(source_fields, j, target_field, rm, case_sensitive) ==
    IF j > Len(source_fields) THEN rm
    ELSE LET lookup_key == IF case_sensitive THEN source_fields[j]
                           ELSE Lower(source_fields[j])
         IN ReverseAliases(source_fields, j + 1, target_field,
                           DSet(rm, lookup_key, target_field), case_sensitive)

\* "for target_field, source_fields in mapping.items()", from item i on
ReverseTargets(mapping, i, rm, case_sensitive) ==
    IF i > Len(mapping) THEN rm
    ELSE ReverseTargets(mapping, i + 1,
            ReverseAliases(mapping[i].v, 1, mapping[i].k, rm, case_sensitive),
            case_sensitive)

\* "for source_type, mapping in self.field_mappings.items()", from item i on
ReverseSources(field_mappings, i, reverse_mapping, case_sensitive) ==
    IF i > Len(field_mappings) THEN reverse_mapping
    ELSE ReverseSources(field_mappings, i + 1,
            DSet(reverse_mapping, field_mappings[i].k,
                 ReverseTargets(field_mappings[i].v, 1, <<>>, case_sensitive)),
            case_sensitive)

_create_reverse_mapping(field_mappings, case_sensitive) ==
    ReverseSources(field_mappings, 1, <<>>, case_sensitive)

\* FieldMapper.__init__
FieldMapper(field_mappings, keep_unmapped_fields, case_sensitive) ==
    [field_mappings |-> field_mappings,
     keep_unmapped_fields |-> keep_unmapped_fields,
     case_sensitive |-> case_sensitive,
     reverse_mapping |-> _create_reverse_mapping(field_mappings, case_sensitive)]

RECURSIVE MapItems(_, _, _, _, _)
\* the loop of _map_fields from item i on
MapItems(record, i, mapped_record, source_mappings, keep_unmapped_fields) ==
    IF i > Len(record) THEN mapped_record
    ELSE LET field_name == record[i].k
         IN MapItems(record, i + 1,
                IF DHas(source_mappings, field_name)
                THEN DSet(mapped_record, DGet(source_mappings, field_name), record[i].v)
                ELSE IF keep_unmapped_fields
                     THEN DSet(mapped_record, field_name, record[i].v)
                     ELSE mapped_record,
                source_mappings, keep_unmapped_fields)

\* source_type is the str held by the metadata, or "unknown"
_map_fields(record, source_type, M) ==
    MapItems(record, 1, <<>>, DGetOr(M.reverse_mapping, source_type, <<>>),
             M.keep_unmapped_fields)

\* metadata.get("source_type", "unknown") as a dict key: a str is its text,
\* None and the numbers are keys no table holds
SourceTypeKey(metadata) ==
    LET v == DGetOr(metadata, "source_type", VStr("unknown"))
    IN IF IsStr(v) THEN v.s ELSE "<not a str>"

RECURSIVE CountTargets(_, _)
CountTargets(field_mappings, i) ==
    IF i > Len(field_mappings) THEN 0
    ELSE Len(field_mappings[i].v) + CountTargets(field_mappings, i + 1)

FieldMapper_transform(M, parsed_data, heap, now) ==
    IF ~validate_input(parsed_data) THEN Raise(InvalidInput, heap)
    ELSE LET data_only == _extract_data_only(parsed_data)
             mapped_data ==
                [i \in DOMAIN data_only |->
                    VDict(_map_fields(data_only[i].d,
                        SourceTypeKey(heap[DGet(parsed_data.l[i].d, "metadata").id]),
                        M))]
             transformation_info ==
                [type |-> "field_mapping", timestamp |-> now,
                 transformer |-> "FieldMapper",
                 fields_mapped |-> CountTargets(M.field_mappings, 1)]
         IN _add_transformation_metadata(
                _preserve_metadata(parsed_data.l, mapped_data),
                transformation_info, heap)

\* add_mapping(source_type, target_field, source_fields)
add_mapping(M, source_type, target_field, source_fields) ==
    LET fm1 == IF DHas(M.field_mappings, source_type) THEN M.field_mappings
               ELSE DSet(M.field_mappings, source_type, <<>>)
        fm2 == DSet(fm1, source_type,
                    DSet(DGet(fm1, source_type), target_field, source_fields))
    IN [M EXCEPT !.field_mappings = fm2,
                 !.reverse_mapping = _create_reverse_mapping(fm2, M.case_sensitive)]

\* del d[k]
DDel(d, k) == SelectSeq(d, LAMBDA item : item.k # k)

\* ------------------------------------------ TypeConverter: the rule table
\* the ValueError of add_conversion_rule
UnsupportedType == "Unsupported type"

\* add_conversion_rule without the test of the target type
add_conversion_rule_unchecked(T, field_name, target_type) ==
    [raised |-> FALSE,
     T |-> [T EXCEPT !.type_conversions = DSet(@, field_name, target_type)]]

\* TypeConverter.add_conversion_rule(field_name, target_type): the converter
\* afterwards, or the ValueError
add_conversion_rule(T, field_name, target_type) ==
    IF target_type \notin {"int", "float", "bool", "str", "datetime"}
    THEN [raised |-> TRUE, error |-> UnsupportedType, T |-> T]
    ELSE [raised |-> FALSE,
          T |-> [T EXCEPT !.type_conversions = DSet(@, field_name, target_type)]]

\* TypeConverter.remove_conversion_rule(field_name)
remove_conversion_rule(T, field_name) ==
    IF DHas(T.type_conversions, field_name)
    THEN [T EXCEPT !.type_conversions = DDel(@, field_name)]
    ELSE T

\* remove_mapping that deletes the target from the table and leaves the reverse
\* index as it was
remove_mapping_stale(M, source_type, target_field) ==
    IF DHas(M.field_mappings, source_type)
       /\ DHas(DGet(M.field_mappings, source_type), target_field)
    THEN [M EXCEPT !.field_mappings =
                DSet(M.field_mappings, source_type,
                     DDel(DGet(M.field_mappings, source_type), target_field))]
    ELSE M

\* remove_mapping(source_type, target_field)
remove_mapping(M, source_type, target_field) ==
    IF DHas(M.field_mappings, source_type)
       /\ DHas(DGet(M.field_mappings, source_type), target_field)
    THEN LET fm2 == DSet(M.field_mappings, source_type,
                         DDel(DGet(M.field_mappings, source_type), target_field))
         IN [M EXCEPT !.field_mappings = fm2,
                      !.reverse_mapping = _create_reverse_mapping(fm2, M.case_sensitive)]
    ELSE M

\* ------------------------------------------------------------ MetadataEnricher
\* Time is a logical clock; processing_timestamp is its value at construction.
MetadataEnricherDefaults ==
    [add_created_at |-> TRUE, add_processed_at |-> TRUE, add_unique_id |-> FALSE,
     add_source_info |-> TRUE, created_at_field |-> "createdAt",
     processed_at_field |-> "processedAt", id_field |-> "recordId",
     datetime_format |-> "iso", custom_datetime_format |-> "%Y-%m-%d %H:%M:%S",
     id_prefix |-> "", additional_metadata |-> <<>>, processing_timestamp |-> 0]

\* the text of clock value dt in the configured format
_format_datetime(dt, E) ==
    CASE E.datetime_format = "iso" -> "iso:" \o ToString(dt)
      [] E.datetime_format = "timestamp" -> ToString(dt)
      [] E.datetime_format = "custom" ->
            E.custom_datetime_format \o ":" \o ToString(dt)
      [] OTHER -> "iso:" \o ToString(dt)

\* uuid4 is a fresh value; here it is named by the serial number of the draw
_generate_unique_id(serial, E) ==
    IF E.id_prefix # "" THEN E.id_prefix \o "_uuid" \o ToString(serial)
    ELSE "uuid" \o ToString(serial)

RECURSIVE AddStatic_overriding(_, _, _)
\* the loop over additional_metadata without the test "key not in record"
AddStatic_overriding(additional_metadata, i, enriched_record) ==
    IF i > Len(additional_metadata) THEN enriched_record
    ELSE AddStatic_overriding(additional_metadata, i + 1,
            DSet(enriched_record, additional_metadata[i].k,
                 additional_metadata[i].v))

RECURSIVE AddStatic(_, _, _)
\* the loop over additional_metadata from item i on
AddStatic(additional_metadata, i, enriched_record) ==
    IF i > Len(additional_metadata) THEN enriched_record
    ELSE AddStatic(additional_metadata, i + 1,
            IF DHas(enriched_record, additional_metadata[i].k) THEN enriched_record
            ELSE DSet(enriched_record, additional_metadata[i].k,
                      additional_metadata[i].v))

\* now is the clock read for processedAt, serial the uuid drawn for this record
_enrich_record(record, original_metadata, E, now, serial) ==
    LET r1 == IF E.add_created_at
              THEN DSet(record, E.created_at_field,
                        VStr(_format_datetime(E.processing_timestamp, E)))
              ELSE record
        r2 == IF E.add_processed_at
              THEN DSet(r1, E.processed_at_field, VStr(_format_datetime(now, E)))
              ELSE r1
        r3 == IF E.add_unique_id
              THEN DSet(r2, E.id_field, VStr(_generate_unique_id(serial, E)))
              ELSE r2
        source_type == DGetOr(original_metadata, "source_type", VStr("unknown"))
        r4 == IF E.add_source_info THEN DSet(r3, "dataSource", source_type) ELSE r3
        topic == DGetOr(original_metadata, "topic", None)
        doc_id == DGetOr(original_metadata, "document_id", None)
        r5 == IF E.add_source_info /\ source_type = VStr("kafka") /\ Truthy(topic)
              THEN DSet(r4, "sourceTopic", topic)
              ELSE IF E.add_source_info /\ source_type = VStr("mongodb") /\ Truthy(doc_id)
                   THEN DSet(r4, "sourceDocumentId", doc_id)
                   ELSE r4
    IN [value |-> AddStatic(E.additional_metadata, 1, r5),
        stats |-> [created_at_added |-> IF E.add_created_at THEN 1 ELSE 0,
                   processed_at_added |-> IF E.add_processed_at THEN 1 ELSE 0,
                   unique_ids_added |-> IF E.add_unique_id THEN 1 ELSE 0,
                   source_info_added |-> IF E.add_source_info THEN 1 ELSE 0]]

_get_added_fields(E) ==
    (IF E.add_created_at THEN <<E.created_at_field>> ELSE <<>>)
    \o (IF E.add_processed_at THEN <<E.processed_at_field>> ELSE <<>>)
    \o (IF E.add_unique_id THEN <<E.id_field>> ELSE <<>>)
    \o (IF E.add_source_info
        THEN <<"dataSource", "sourceTopic", "sourceDocumentId">> ELSE <<>>)
    \o [i \in DOMAIN E.additional_metadata |-> E.additional_metadata[i].k]

\* record i reads the clock at now + i - 1; the stage's own entry is stamped
\* after the last record
MetadataEnricher_transform(E, parsed_data, heap, now) ==
    IF ~validate_input(parsed_data) THEN Raise(InvalidInput, heap)
    ELSE LET data_only == _extract_data_only(parsed_data)
             enriched ==
                [i \in DOMAIN data_only |->
                    _enrich_record(data_only[i].d,
                        heap[DGet(parsed_data.l[i].d, "metadata").id],
                        E, now + i - 1, now + i - 1)]
             enriched_data == [i \in DOMAIN enriched |-> VDict(enriched[i].value)]
             keys == {"created_at_added", "processed_at_added", "unique_ids_added",
                      "source_info_added"}
             transformation_info ==
                [type |-> "metadata_enrichment", timestamp |-> now + Len(data_only),
                 transformer |-> "MetadataEnricher",
                 enrichment_stats |->
                    [k \in keys \cup {"records_processed"} |->
                        IF k = "records_processed" THEN Len(enriched)
                        ELSE SumStat(enriched, k, 1)],
                 fields_added |-> _get_added_fields(E)]
         IN _add_transformation_metadata(
                _preserve_metadata(parsed_data.l, enriched_data),
                transformation_info, heap)


_get_flattening_config(F) ==
    [separator |-> F.separator, max_depth |-> F.max_depth,
     array_handling |-> F.array_handling, preserve_arrays |-> F.preserve_arrays,
     flatten_objects |-> F.flatten_objects, flatten_arrays |-> F.flatten_arrays,
     null_value_handling |-> F.null_value_handling]

RECURSIVE MaxStat(_, _, _)
MaxStat(results, key, i) ==
    IF i > Len(results) THEN 0
    ELSE Max(results[i].stats[key], MaxStat(results, key, i + 1))

\* Flattener.transform that leaves out the records that break the envelope
\* and goes on with the others
Flattener_transform_skipping(F, parsed_data, heap, now) ==
    IF ~IsList(parsed_data) THEN Raise(InvalidInput, heap)
    ELSE LET valid == SelectSeq(parsed_data.l,
                                LAMBDA record : validate_input(VList(<<record>>)))
             data_only == _extract_data_only(VList(valid))
             flattened == [i \in DOMAIN data_only |->
                              _flatten_record(data_only[i].d, F)]
             flattened_data == [i \in DOMAIN flattened |-> VDict(flattened[i].result)]
             keys == {"objects_flattened", "arrays_flattened", "fields_created"}
             flattening_stats ==
                [k \in keys \cup {"records_processed", "max_depth_reached"} |->
                    CASE k = "records_processed" -> Len(flattened)
                      [] k = "max_depth_reached" -> MaxStat(flattened, k, 1)
                      [] OTHER -> SumStat(flattened, k, 1)]
             transformation_info ==
                [type |-> "flattening", timestamp |-> now,
                 transformer |-> "Flattener",
                 flattening_stats |-> flattening_stats,
                 configuration |-> _get_flattening_config(F)]
         IN _add_transformation_metadata(
                _preserve_metadata(valid, flattened_data),
                transformation_info, heap)

Flattener_transform(F, parsed_data, heap, now) ==
    IF ~validate_input(parsed_data) THEN Raise(InvalidInput, heap)
    ELSE LET data_only == _extract_data_only(parsed_data)
             flattened == [i \in DOMAIN data_only |->
                              _flatten_record(data_only[i].d, F)]
             flattened_data == [i \in DOMAIN flattened |-> VDict(flattened[i].result)]
             keys == {"objects_flattened", "arrays_flattened", "fields_created"}
             flattening_stats ==
                [k \in keys \cup {"records_processed", "max_depth_reached"} |->
                    CASE k = "records_processed" -> Len(flattened)
                      [] k = "max_depth_reached" -> MaxStat(flattened, k, 1)
                      [] OTHER -> SumStat(flattened, k, 1)]
             transformation_info ==
                [type |-> "flattening", timestamp |-> now,
                 transformer |-> "Flattener",
                 flattening_stats |-> flattening_stats,
                 configuration |-> _get_flattening_config(F)]
         IN _add_transformation_metadata(
                _preserve_metadata(parsed_data.l, flattened_data),
                transformation_info, heap)

\* -------------------------------------------------------------------- parsers
\* BaseParser.validate_input
Parser_validate_input(raw_data) ==
    /\ IsList(raw_data)
    /\ \A i \in DOMAIN raw_data.l : IsDict(raw_data.l[i])

\* json.loads(text) for the message texts of the model; [ok |-> FALSE] is
\* json.JSONDecodeError
JsonLoads(text) ==
    CASE text = "{\"firstName\": \"  John  \", \"status\": \"N/A\"}" ->
            [ok |-> TRUE, value |-> VDict(<<KV("firstName", VStr("  John  ")),
                                           KV("status", VStr("N/A"))>>)]
      [] text = "{\"email\": \"bad\", \"age\": \"abc\"}" ->
            [ok |-> TRUE, value |-> VDict(<<KV("email", VStr("bad")),
                                           KV("age", VStr("abc"))>>)]
      [] text = "{\"address\": {\"city\": \"NYC\"}, \"age\": \"30.0\"}" ->
            [ok |-> TRUE,
             value |-> VDict(<<KV("address", VDict(<<KV("city", VStr("NYC"))>>)),
                               KV("age", VStr("30.0"))>>)]
      [] text = "[1]" -> [ok |-> TRUE, value |-> VList(<<VInt(1)>>)]
      [] text = "5" -> [ok |-> TRUE, value |-> VInt(5)]
      [] text = "null" -> [ok |-> TRUE, value |-> None]
      [] OTHER -> [ok |-> FALSE]

\* A parser call returns [raised |-> FALSE, value |-> list of records, heap] or
\* [raised |-> TRUE, error, heap]; one record's parse returns
\* [raised, record, heap] likewise. A new metadata dict is a new heap cell.
NewRecord(data, metadata, heap) ==
    [raised |-> FALSE,
     record |-> VDict(<<KV("data", data), KV("metadata", VRef(Len(heap) + 1))>>),
     heap |-> Append(heap, metadata)]

\* JsonParser.extract_metadata
extract_metadata(record) ==
    <<KV("source_type", VStr("kafka")),
      KV("topic", DGetOr(record, "topic", None)),
      KV("partition", DGetOr(record, "partition", None)),
      KV("offset", DGetOr(record, "offset", None)),
      KV("timestamp", DGetOr(record, "timestamp", None)),
      KV("key", DGetOr(record, "key", None)),
      KV("headers", DGetOr(record, "headers", VDict(<<>>)))>>

\* JsonParser._parse_single_record; P is [strict_mode, handle_malformed]
JsonParser_parse_single_record(record, heap, P) ==
    LET raw_value == DGetOr(record, "raw_value", None)
    IN IF IsNone(raw_value)
       THEN [raised |-> TRUE,
             error |-> "No 'raw_value' field found in record",
             heap |-> heap]
       ELSE IF IsStr(raw_value)
            THEN IF JsonLoads(raw_value.s).ok
                 THEN NewRecord(JsonLoads(raw_value.s).value,
                                extract_metadata(record), heap)
                 ELSE IF P.handle_malformed
                      THEN NewRecord(VDict(<<KV("raw_text", raw_value)>>),
                                     extract_metadata(record), heap)
                      ELSE [raised |-> TRUE,
                            error |-> "Invalid JSON format",
                            heap |-> heap]
            ELSE NewRecord(raw_value, extract_metadata(record), heap)

\* JsonParser._create_fallback_record: it calls self._extract_metadata, which
\* JsonParser does not define (its method is extract_metadata)
JsonParser_create_fallback_record(record, error_message, heap) ==
    [raised |-> TRUE,
     error |-> "'JsonParser' object has no attribute '_extract_metadata'",
     heap |-> heap]

RECURSIVE JsonParseFrom(_, _, _, _, _)
\* the loop of JsonParser.parse from record i on
JsonParseFrom(raw, i, parsed_records, heap, P) ==
    IF i > Len(raw) THEN Return(VList(parsed_records), heap)
    ELSE LET r == JsonParser_parse_single_record(raw[i].d, heap, P)
         IN IF ~r.raised
            THEN IF Truthy(r.record)
                 THEN JsonParseFrom(raw, i + 1, Append(parsed_records, r.record),
                                    r.heap, P)
                 ELSE JsonParseFrom(raw, i + 1, parsed_records, r.heap, P)
            ELSE IF P.strict_mode THEN Raise(r.error, heap)
                 ELSE LET f == JsonParser_create_fallback_record(raw[i].d, r.error, heap)
                      IN IF f.raised THEN Raise(f.error, f.heap)
                         ELSE JsonParseFrom(raw, i + 1,
                                  Append(parsed_records, f.record), f.heap, P)

JsonParser_parse(P, raw_data, heap) ==
    IF ~Parser_validate_input(raw_data)
    THEN Raise("Invalid input format - expected list of dictionaries", heap)
    ELSE JsonParseFrom(raw_data.l, 1, <<>>, heap, P)

\* BsonParser; B is [convert_objectid, convert_datetime, preserve_id_field]
RECURSIVE _clean_bson_data(_, _), CleanBsonItems(_, _, _, _), _clean_bson_list(_, _)
\* the loop of _clean_bson_data from item i on
CleanBsonItems(record, i, cleaned, B) ==
    IF i > Len(record) THEN cleaned
    ELSE LET key == record[i].k
             value == record[i].v
             next ==
                CASE key = "_id" ->
                        IF B.preserve_id_field
                        THEN DSet(cleaned, "_id",
                                  IF B.convert_objectid THEN VStr(PyStr(value))
                                  ELSE value)
                        ELSE cleaned
                  [] key # "_id" /\ value.t = "datetime" ->
                        DSet(cleaned, key,
                             IF B.convert_datetime THEN VStr(DatetimeIso(value.s))
                             ELSE value)
                  [] key # "_id" /\ IsDict(value) ->
                        DSet(cleaned, key, VDict(_clean_bson_data(value.d, B)))
                  [] key # "_id" /\ IsList(value) ->
                        DSet(cleaned, key, VList(_clean_bson_list(value.l, B)))
                  [] OTHER -> DSet(cleaned, key, value)
         IN CleanBsonItems(record, i + 1, next, B)

_clean_bson_data(record, B) == CleanBsonItems(record, 1, <<>>, B)

_clean_bson_list(items, B) ==
    [i \in DOMAIN items |->
        CASE IsDict(items[i]) -> VDict(_clean_bson_data(items[i].d, B))
          [] items[i].t = "datetime" ->
                IF B.convert_datetime THEN VStr(DatetimeIso(items[i].s)) ELSE items[i]
          [] IsList(items[i]) -> VList(_clean_bson_list(items[i].l, B))
          [] OTHER -> items[i]]

_has_nested_objects(record) ==
    \E i \in DOMAIN record : record[i].v.t \in {"dict", "list"}

\* type(v).__name__
TypeName(v) ==
    CASE v.t = "null" -> "NoneType" [] v.t = "str" -> "str" [] v.t = "int" -> "int"
      [] v.t = "float" -> "float" [] v.t = "bool" -> "bool" [] v.t = "list" -> "list"
      [] v.t = "dict" -> "dict" [] OTHER -> v.t

\* BsonParser._extract_metadata
BsonParser_extract_metadata(record) ==
    LET base == <<KV("source_type", VStr("mongodb")),
                  KV("document_id",
                     IF DHas(record, "_id") THEN VStr(PyStr(DGet(record, "_id")))
                     ELSE None),
                  KV("field_count", VInt(Len(record))),
                  KV("has_nested_objects", VBool(_has_nested_objects(record)))>>
    IN IF DHas(record, "_id")
       THEN DSet(base, "original_id_type", VStr(TypeName(DGet(record, "_id"))))
       ELSE base

\* BsonParser._parse_single_record: no step of it fails on a dict of the
\* values above, so the except branch of parse (its fallback record) is not taken
BsonParser_parse_single_record(record, heap, B) ==
    NewRecord(VDict(_clean_bson_data(record, B)),
              BsonParser_extract_metadata(record), heap)

RECURSIVE BsonParseFrom(_, _, _, _, _)
\* the loop of BsonParser.parse from record i on
BsonParseFrom(raw, i, parsed_records, heap, B) ==
    IF i > Len(raw) THEN Return(VList(parsed_records), heap)
    ELSE LET r == BsonParser_parse_single_record(raw[i].d, heap, B)
         IN BsonParseFrom(raw, i + 1,
                IF Truthy(r.record) THEN Append(parsed_records, r.record)
                ELSE parsed_records,
                r.heap, B)

BsonParser_parse(B, raw_data, heap) ==
    IF ~Parser_validate_input(raw_data)
    THEN Raise("Invalid input format - expected list of dictionaries", heap)
    ELSE BsonParseFrom(raw_data.l, 1, <<>>, heap, B)

\* ------------------------------------------------- inputs of the flattener
\* payload fields are taken in this order; "a.c" is also the path of field c
\* nested under a
FieldKeys == <<"a", "a.c", "b", "e">>

FlatValues ==
    {None, VStr("x"), VInt(1), VDict(<<>>), VList(<<>>),
     VDict(<<KV("c", VStr("y"))>>),
     VDict(<<KV("c", VDict(<<KV("d", None)>>))>>),
     VList(<<VStr("p"), VInt(2)>>),
     VList(<<None, VDict(<<KV("c", VInt(3))>>)>>),
     VList(<<VList(<<VInt(1)>>)>>)}

\* the payloads of n fields FieldKeys[1..n] with values from vals
PayloadsOver(vals, n) ==
    {[i \in 1..n |-> KV(FieldKeys[i], f[i])] : f \in [1..n -> vals]}

FlatPayloads == UNION {PayloadsOver(FlatValues, n) : n \in 0..MaxFields}

CustomRuleSets ==
    {<<>>,
     <<KV("a", <<KV("type", "first_element")>>)>>,
     <<KV("a", <<KV("type", "keys")>>)>>,
     <<KV("a", <<KV("type", "json")>>)>>,
     <<KV("a", <<>>), KV("a.c", <<KV("type", "length")>>)>>}

FlattenerConfigs ==
    {[FlattenerDefaults EXCEPT !.max_depth = md, !.array_handling = ah,
                               !.preserve_arrays = pa, !.null_value_handling = nh,
                               !.custom_flatteners = cf] :
        md \in {0, 1, 2, 10}, ah \in {"index", "enumerate", "concat"},
        pa \in BOOLEAN, nh \in {"keep", "remove", "empty_string"},
        cf \in CustomRuleSets}

\* ---------------------------------------------------- inputs of the parsers
\* a Kafka message as KafkaExtractor.extract builds it; raw_value is absent
\* when has_value is FALSE
KafkaMessage(has_value, raw_value) ==
    VDict((IF has_value THEN <<KV("raw_value", raw_value)>> ELSE <<>>)
          \o <<KV("topic", VStr("user_events")), KV("partition", VInt(0)),
               KV("offset", VInt(123)), KV("key", None), KV("headers", VDict(<<>>))>>)

JsonTexts ==
    {"{\"firstName\": \"  John  \", \"status\": \"N/A\"}",
     "{\"email\": \"bad\", \"age\": \"abc\"}",
     "{\"address\": {\"city\": \"NYC\"}, \"age\": \"30.0\"}",
     "[1]", "not json"}

\* what KafkaExtractor delivers: the decoded text of a message, or None
KafkaMessages ==
    {KafkaMessage(TRUE, VStr(text)) : text \in JsonTexts}
    \cup {KafkaMessage(TRUE, None)}

\* what any caller of JsonParser.parse may pass as a record
JsonRawRecords ==
    KafkaMessages
    \cup {KafkaMessage(FALSE, None),
          KafkaMessage(TRUE, VDict(<<KV("user", VStr("John"))>>)),
          KafkaMessage(TRUE, VInt(5)),
          VStr("not a dict")}

MongoDocuments ==
    {VDict(<<KV("_id", VStr("64a1")), KV("customer_name", VStr("  John  ")),
             KV("customer_age", VStr("abc"))>>),
     VDict(<<KV("name", VStr("X")),
             KV("createdAt", VDatetime("2024-01-15 10:30:00")),
             KV("address", VDict(<<KV("city", VStr("NYC"))>>))>>),
     VDict(<<KV("_id", VInt(7)),
             KV("tags", VList(<<VStr("x"), VDatetime("2024-01-16 00:00:00"),
                                VDict(<<KV("_id", VInt(1))>>)>>))>>),
     VDict(<<>>)}

\* the lists of at most MaxBatch elements of set
ListsOf(set) == UNION {[1..n -> set] : n \in 0..MaxBatch}

\* ------------------------------------------------------ inputs of the stages
\* the five stages, by the names _initialize_transformers gives them
StageNames ==
    {"data_cleaner", "flattener", "field_mapper", "type_converter",
     "metadata_enricher"}

KafkaMappings == <<KV("kafka", <<KV("first_name", <<"firstName">>)>>)>>

\* the configurations a stage is constructed with
StageConfigs(name) ==
    CASE name = "data_cleaner" ->
            {DataCleanerDefaults,
             [DataCleanerDefaults EXCEPT !.validate_emails = TRUE,
                                         !.strict_validation = TRUE]}
      [] name = "flattener" -> {FlattenerDefaults}
      [] name = "field_mapper" -> {FieldMapper(KafkaMappings, TRUE, FALSE)}
      [] name = "type_converter" ->
            {[TypeConverterDefaults EXCEPT !.type_conversions = <<KV("age", "int")>>,
                                           !.strict_mode = sm] : sm \in BOOLEAN}
      [] name = "metadata_enricher" -> {MetadataEnricherDefaults}

StagePayloads ==
    {<<>>,
     <<KV("email", VStr("bad"))>>,
     <<KV("age", VStr("abc"))>>,
     <<KV("firstName", VStr("  John  ")),
       KV("address", VDict(<<KV("city", VStr("NYC"))>>))>>}

\* what a caller may pass as record i of a batch; its metadata dict, when it
\* has one, is heap[i]
StageRecords(i) ==
    {VDict(<<KV("data", VDict(p)), KV("metadata", VRef(i))>>) : p \in StagePayloads}
    \cup {VStr("not a record"),
          VDict(<<KV("metadata", VRef(i))>>),
          VDict(<<KV("data", VDict(<<>>))>>),
          VDict(<<KV("data", VList(<<>>)), KV("metadata", VRef(i))>>),
          VDict(<<KV("data", VDict(<<>>)), KV("metadata", None)>>)}

\* the metadata dicts of the records: as a parser leaves them, with the
\* entry of an earlier stage, with a transformations_applied that is no list,
\* and with no field at all
StageMetadata ==
    {<<>>,
     <<KV("source_type", VStr("kafka"))>>,
     <<KV("source_type", VStr("kafka")),
       KV("transformations_applied",
          VList(<<[type |-> "earlier", timestamp |-> 0, transformer |-> "Earlier"]>>))>>,
     <<KV("transformations_applied", None)>>}

\* ------------------------------------------------- inputs of the cleaner
\* the configurations of a DataCleaner: the five cleaning_rules, with the
\* validation_rules of __init__ or an empty validation_rules, strict or not
CleanerConfigs ==
    {[DataCleanerDefaults EXCEPT !.trim_whitespace = tw,
                                 !.remove_empty_strings = re,
                                 !.standardize_nulls = sn,
                                 !.validate_emails = ve,
                                 !.clean_phone_numbers = cp,
                                 !.validation_rules = vr,
                                 !.strict_validation = sv] :
        tw \in BOOLEAN, re \in BOOLEAN, sn \in BOOLEAN, ve \in BOOLEAN,
        cp \in BOOLEAN, vr \in {{"email", "phone"}, {}}, sv \in BOOLEAN}

CleanerPayloads ==
    {<<KV("name", VStr("  John  ")), KV("description", VStr(""))>>,
     <<KV("description", VStr(" ")), KV("status", VStr(" N/A "))>>,
     <<KV("email", VStr(" A@B.CO ")), KV("phone", VStr("555-1234"))>>,
     <<KV("email", VStr("Null")), KV("age", VInt(30))>>,
     <<KV("email", VStr("bad")), KV("phone", VStr("unknown"))>>,
     <<KV("email", VStr(""))>>}

\* a batch of one record
CleanerBatches ==
    {VList(<<VDict(<<KV("data", VDict(p)), KV("metadata", VRef(1))>>)>>) :
        p \in CleanerPayloads}

\* ------------------------------------------------ inputs of the enricher
\* the static entries of additional_metadata: a name of their own, the names
\* of payload fields, and the names the enricher stamps
StaticEntries ==
    {<<>>,
     <<KV("env", VStr("static")), KV("name", VStr("static"))>>,
     <<KV("createdAt", VStr("static")), KV("sourceTopic", VStr("static")),
       KV("env", VStr("static"))>>}

EnricherConfigs ==
    {[MetadataEnricherDefaults EXCEPT !.add_created_at = ca, !.add_processed_at = pa,
                                      !.add_unique_id = ui, !.add_source_info = si,
                                      !.additional_metadata = am] :
        ca \in BOOLEAN, pa \in BOOLEAN, ui \in BOOLEAN, si \in BOOLEAN,
        am \in StaticEntries}

\* payloads as the earlier stages leave them: some hold a field with a name
\* the enricher writes
EnricherPayloads ==
    {<<>>,
     <<KV("name", VStr("X")), KV("env", None)>>,
     <<KV("createdAt", VStr("2020-01-01")), KV("dataSource", VStr("manual"))>>,
     <<KV("recordId", VInt(7)), KV("processedAt", VStr("then")),
       KV("sourceTopic", VStr("mine"))>>}

EnricherMetadata ==
    {<<>>,
     <<KV("source_type", VStr("kafka")), KV("topic", VStr("user_events"))>>,
     <<KV("source_type", VStr("mongodb")), KV("document_id", VStr("64a1"))>>}

\* -------------------------------------------- inputs of the type converter
\* the target types a conversion table may name: the five of _convert_value
\* and one it does not know
ConverterTypes == {"int", "float", "bool", "str", "datetime", "decimal"}

\* default_values: the table of __init__, and one a configuration gives
ConverterDefaultValues ==
    {TypeConverterDefaults.default_values,
     <<KV("int", VInt(0 - 1)), KV("bool", VBool(TRUE)), KV("decimal", VInt(0))>>}

ConverterConfigs ==
    {[type_conversions |-> <<KV("age", ty)>>, strict_mode |-> sm,
      default_values |-> dv] :
        ty \in ConverterTypes, sm \in BOOLEAN, dv \in ConverterDefaultValues}

\* the values of the field the table names
ConverterValues ==
    {None, VStr(""), VStr(" "), VStr(" abc "), VStr(" 30.0 "), VStr("yes"),
     VStr("maybe"), VStr("2024-01-16"), VInt(5), VFloat(0 - 150), VBool(TRUE),
     VList(<<VInt(1)>>), VDatetime("2024-01-15 10:30:00")}

\* a batch of one record: the field of the table and a field it does not name
ConverterBatches ==
    {VList(<<VDict(<<KV("data", VDict(<<KV("age", v), KV("name", VStr("  John  "))>>)),
                     KV("metadata", VRef(1))>>)>>) : v \in ConverterValues}

\* ------------------------------------------------ inputs of the field mapper
MapperTables ==
    {<<>>,
     KafkaMappings,
     <<KV("kafka", <<KV("first_name", <<"firstName", "b">>), KV("name", <<"a">>)>>),
       KV("mongodb", <<KV("name", <<"FirstName">>)>>)>>}

MapperPayloads ==
    {<<>>,
     <<KV("firstName", VStr("X"))>>,
     <<KV("firstname", VStr("X")), KV("a", VInt(1))>>,
     <<KV("b", VInt(2)), KV("firstName", VStr("X"))>>}

MapperMetadata ==
    {<<KV("source_type", VStr("kafka"))>>,
     <<KV("source_type", VStr("mongodb"))>>,
     <<>>}

\* -------------------------------------------------- inputs of the pipeline
\* MongoExtractor.extract: the documents of the cursor, _id as its text
MongoExtractor_extract(cursor) ==
    [i \in DOMAIN cursor |->
        IF DHas(cursor[i].d, "_id")
        THEN VDict(DSet(cursor[i].d, "_id", VStr(PyStr(DGet(cursor[i].d, "_id")))))
        ELSE cursor[i]]

\* An extractor or a loader is [client, ...]: client says whether the object
\* holds a consumer, a client or a connection; an extractor also has limit,
\* config['limit'] as <<n>>, or <<>> when config has no such key. The outcome
\* of connect() is [ok, client]: a connect that fails may have made the client
\* before it failed.
ConnectOutcomes ==
    {[ok |-> TRUE, client |-> TRUE], [ok |-> FALSE, client |-> TRUE],
     [ok |-> FALSE, client |-> FALSE]}

\* config.get('limit', 0)
LimitOf(extractor) == IF extractor.limit = <<>> THEN 0 ELSE extractor.limit[1]

\* extractor.extract(): MongoExtractor applies the limit when it is positive,
\* KafkaExtractor does not read it
Extractor_extract(extractor, kind, holds) ==
    IF kind = "mongodb"
    THEN MongoExtractor_extract(
            IF LimitOf(extractor) > 0
            THEN SubSeq(holds, 1, Min(LimitOf(extractor), Len(holds)))
            ELSE holds)
    ELSE holds

\* _extract_data without the disconnect of the except clause
_extract_data_leaking(extractor, kind, holds, connect) ==
    IF ~connect.ok
    THEN [raised |-> TRUE,
          error |-> "Data extraction failed: Failed to connect to data source",
          extractor |-> [extractor EXCEPT !.client = @ \/ connect.client],
          calls |-> <<"extractor.connect failed">>]
    ELSE [raised |-> FALSE,
          value |-> VList(Extractor_extract(extractor, kind, holds)),
          extractor |-> [extractor EXCEPT !.client = FALSE],
          calls |-> <<"extractor.connect", "extractor.extract",
                      "extractor.disconnect">>]

\* ETLPipeline._extract_data: connect, extract, disconnect; the calls made on
\* the extractor, and the extractor afterwards
_extract_data(extractor, kind, holds, connect) ==
    IF ~connect.ok
    THEN [raised |-> TRUE,
          error |-> "Data extraction failed: Failed to connect to data source",
          extractor |-> [extractor EXCEPT !.client = FALSE],
          calls |-> <<"extractor.connect failed", "extractor.disconnect">>]
    ELSE [raised |-> FALSE,
          value |-> VList(Extractor_extract(extractor, kind, holds)),
          extractor |-> [extractor EXCEPT !.client = FALSE],
          calls |-> <<"extractor.connect", "extractor.extract",
                      "extractor.disconnect">>]

\* the field_mappings of a configuration file: a table for each source type
PipelineMappings ==
    KafkaMappings \o <<KV("mongodb", <<KV("age", <<"customer_age">>)>>)>>

\* the transformations section of a configuration file: name -> enabled, config
\* (the attributes the stage's __init__ derives from config)
TransformationsConfigs ==
    {<<>>,
     <<KV("type_converter",
          [enabled |-> TRUE,
           config |-> [TypeConverterDefaults EXCEPT
                          !.type_conversions = <<KV("age", "int")>>,
                          !.strict_mode = TRUE]]),
       KV("field_mapper",
          [enabled |-> TRUE, config |-> FieldMapper(PipelineMappings, TRUE, FALSE)])>>,
     <<KV("data_cleaner",
          [enabled |-> TRUE,
           config |-> [DataCleanerDefaults EXCEPT !.validate_emails = TRUE,
                                                  !.strict_validation = TRUE]]),
       KV("metadata_enricher",
          [enabled |-> TRUE,
           config |-> [MetadataEnricherDefaults EXCEPT !.add_unique_id = TRUE]])>>,
     <<KV("type_converter",
          [enabled |-> FALSE,
           config |-> [TypeConverterDefaults EXCEPT
                          !.type_conversions = <<KV("age", "int")>>]])>>}

\* ---------------------------------------------------------------- ETLPipeline
\* ConfigManager.get_transformer_configs: the configurations of the enabled
\* entries, then every default transformer that is missing, with {}
DefaultConfig(name) ==
    CASE name = "data_cleaner" -> DataCleanerDefaults
      [] name = "flattener" -> FlattenerDefaults
      [] name = "field_mapper" -> FieldMapper(<<>>, TRUE, FALSE)
      [] name = "type_converter" -> TypeConverterDefaults
      [] name = "metadata_enricher" -> MetadataEnricherDefaults

get_transformer_configs(transformations) ==
    [name \in StageNames |->
        IF DHas(transformations, name) /\ DGet(transformations, name).enabled
        THEN DGet(transformations, name).config
        ELSE DefaultConfig(name)]

\* the order with the type converter ahead of the field mapper
default_order_swapped ==
    <<"data_cleaner", "flattener", "type_converter", "field_mapper",
      "metadata_enricher">>

default_order ==
    <<"data_cleaner", "flattener", "field_mapper", "type_converter",
      "metadata_enricher">>

\* ETLPipeline._initialize_transformers: self.transformers
_initialize_transformers(transformer_configs) ==
    LET present == SelectSeq(default_order,
                             LAMBDA name : name \in DOMAIN transformer_configs)
    IN [i \in DOMAIN present |->
            [name |-> present[i], config |-> transformer_configs[present[i]]]]

\* transformer.transform(transformed_data), by the class of the transformer
transform(transformer, parsed_data, heap, now) ==
    CASE transformer.name = "data_cleaner" ->
            DataCleaner_transform(transformer.config, parsed_data, heap, now)
      [] transformer.name = "flattener" ->
            Flattener_transform(transformer.config, parsed_data, heap, now)
      [] transformer.name = "field_mapper" ->
            FieldMapper_transform(transformer.config, parsed_data, heap, now)
      [] transformer.name = "type_converter" ->
            TypeConverter_transform(transformer.config, parsed_data, heap, now)
      [] transformer.name = "metadata_enricher" ->
            MetadataEnricher_transform(transformer.config, parsed_data, heap, now)

\* the clock reads of one transform call: one for the entry's timestamp, and
\* one per record in the enricher
ClockReads(transformer, parsed_data) ==
    IF transformer.name = "metadata_enricher" /\ validate_input(parsed_data)
    THEN Len(parsed_data.l) + 1 ELSE 1

\* The payload dicts of a batch as objects of the heap, like the metadata
\* dicts: a record refers to its metadata dict and to its payload dict.

\* the dict with the given fields that a stage builds for the record whose
\* payload is heap[source], written into the payload it was given
_new_record_in_place(heap, source, fields) ==
    [heap |-> [heap EXCEPT ![source] = fields], ref |-> VRef(source)]

\* the dict a stage builds for one record: cleaned_record = {}, flattened = {},
\* mapped_record = {}, converted_record = {}, enriched_record = record.copy();
\* each is a new object, filled with the given fields
_new_record(heap, source, fields) ==
    [heap |-> Append(heap, fields), ref |-> VRef(Len(heap) + 1)]

\* the batch with each payload reference replaced by the dict it refers to
Payloads(batch, heap) ==
    VList([i \in DOMAIN batch.l |->
        VDict(<<KV("data", VDict(heap[DGet(batch.l[i].d, "data").id])),
                KV("metadata", DGet(batch.l[i].d, "metadata"))>>)])

RECURSIVE StoreFrom(_, _, _, _)
\* the records a stage returns from record i on: each refers to the dict the
\* stage built for it and to the metadata dict of the input record
StoreFrom(batch, out, i, heap) ==
    IF i > Len(out) THEN Return(VList(<<>>), heap)
    ELSE LET made == _new_record(heap, DGet(batch.l[i].d, "data").id,
                                 DGet(out[i].d, "data").d)
             rest == StoreFrom(batch, out, i + 1, made.heap)
         IN Return(VList(<<VDict(<<KV("data", made.ref),
                                   KV("metadata", DGet(out[i].d, "metadata"))>>)>>
                         \o rest.value.l),
                   rest.heap)

\* transformer.transform(batch) on a batch of payload objects: a call that
\* raises leaves behind no dict that the caller can reach
transform_objects(transformer, batch, heap, now) ==
    WithValue(transform(transformer, Payloads(batch, heap), heap, now),
        LAMBDA r : IF r.raised THEN r
                   ELSE StoreFrom(batch, r.value.l, 1, r.heap))

\* the iteration with an except clause of its own that logs the error and goes
\* on with the batch as it was
_transform_data_iter_swallowing(transformer, transformed_data, heap, now) ==
    WithValue(transform(transformer, transformed_data, heap, now),
        LAMBDA r : IF r.raised THEN Return(transformed_data, r.heap) ELSE r)

\* one iteration of the loop of _transform_data, with its except clause
_transform_data_iter(transformer, transformed_data, heap, now) ==
    WithValue(transform(transformer, transformed_data, heap, now),
        LAMBDA r : IF r.raised
                   THEN Raise("Data transformation failed: " \o r.error, r.heap)
                   ELSE r)

\* self.parser.parse(raw_data), with the except clause of _parse_data
_parse_data(parser, raw_data, heap) ==
    WithValue(IF parser.kind = "json"
              THEN JsonParser_parse(parser.config, raw_data, heap)
              ELSE BsonParser_parse(parser.config, raw_data, heap),
        LAMBDA r : IF r.raised
                   THEN Raise("Data parsing failed: " \o r.error, r.heap)
                   ELSE r)

\* BaseLoader.validate_input
Loader_validate_input(transformed_data) ==
    /\ IsList(transformed_data)
    /\ \A i \in DOMAIN transformed_data.l :
          /\ IsDict(transformed_data.l[i])
          /\ DHas(transformed_data.l[i].d, "data")
          /\ DHas(transformed_data.l[i].d, "metadata")

RECURSIVE DryTransform(_, _, _, _, _)
\* the loop of dry_run over self.transformers, from transformer k on
DryTransform(transformers, k, transformed_data, heap, now) ==
    IF k > Len(transformers)
    THEN [raised |-> FALSE, value |-> transformed_data, heap |-> heap, now |-> now]
    ELSE WithValue(transform(transformers[k], transformed_data, heap, now),
            LAMBDA r :
                IF r.raised
                THEN [raised |-> TRUE, error |-> r.error, heap |-> r.heap,
                      now |-> now + 1]
                ELSE DryTransform(transformers, k + 1, r.value, r.heap,
                                  now + ClockReads(transformers[k], transformed_data)))

\* what dry_run returns after the extraction: parse and transform, no load
DryRest(raw_data, parser, transformers, heap, now) ==
    WithValue(IF parser.kind = "json"
              THEN JsonParser_parse(parser.config, raw_data, heap)
              ELSE BsonParser_parse(parser.config, raw_data, heap),
        LAMBDA p :
            IF p.raised
            THEN [heap |-> p.heap, now |-> now,
                  result |-> [success |-> FALSE, error |-> p.error,
                              message |-> "Dry run failed"]]
            ELSE WithValue(DryTransform(transformers, 1, p.value, p.heap, now),
                    LAMBDA t :
                        [heap |-> t.heap, now |-> t.now,
                         result |->
                            IF t.raised
                            THEN [success |-> FALSE, error |-> t.error,
                                  message |-> "Dry run failed"]
                            ELSE [success |-> TRUE,
                                  records_extracted |-> Len(raw_data.l),
                                  records_parsed |-> Len(p.value.l),
                                  records_transformed |-> Len(t.value.l),
                                  message |-> "Dry run completed successfully"]]))

\* ETLPipeline.dry_run(max_records): connect, set config['limit'], extract,
\* disconnect, put the limit back when it was positive, parse, transform
dry_run(extractor, kind, holds, parser, transformers, heap, now, connect, max_records) ==
    IF ~connect.ok
    THEN [extractor |-> [extractor EXCEPT !.client = @ \/ connect.client],
          calls |-> <<"extractor.connect failed">>,
          heap |-> heap, now |-> now,
          result |-> [success |-> FALSE,
                      error |-> "Failed to connect to data source",
                      message |-> "Dry run failed"]]
    ELSE LET original_limit == LimitOf(extractor)
             limited == [extractor EXCEPT !.limit = <<max_records>>]
             restored == IF original_limit > 0
                         THEN [limited EXCEPT !.limit = <<original_limit>>]
                         ELSE limited
         IN WithValue(DryRest(VList(Extractor_extract(limited, kind, holds)),
                              parser, transformers, heap, now),
               LAMBDA r :
                   [extractor |-> [restored EXCEPT !.client = FALSE],
                    calls |-> <<"extractor.connect", "extractor.extract",
                                "extractor.disconnect">>,
                    heap |-> r.heap, now |-> r.now, result |-> r.result])

\* the extractor and the loader as _initialize_components leaves them, with
\* no call made on them and no run() or dry_run() started
Io0(limit) ==
    [extractor |-> [client |-> FALSE, limit |-> limit],
     loader |-> [client |-> FALSE],
     calls |-> <<>>, runs |-> 0, dry_runs |-> 0, last |-> "none",
     dry_result |-> None]

\* pipeline_stats as __init__ sets it; a time of 0 is None
PipelineStats0 ==
    [start_time |-> 0, end_time |-> 0, duration_seconds |-> 0,
     records_extracted |-> 0, records_parsed |-> 0, records_transformed |-> 0,
     records_loaded |-> 0, errors |-> <<>>]

\* ETLPipeline._load_data: connect, load, disconnect; the database may refuse
\* the batches (load then reports it in load_result)
_load_data(loader, transformed_data, connect, db_ok) ==
    IF ~connect.ok
    THEN [raised |-> TRUE,
          error |-> "Data loading failed: Failed to connect to data target",
          loader |-> [loader EXCEPT !.client = FALSE],
          calls |-> <<"loader.connect failed", "loader.disconnect">>]
    ELSE IF ~Loader_validate_input(transformed_data)
    THEN [raised |-> TRUE,
          error |-> "Data loading failed: Invalid input format - expected transformed data with data and metadata",
          loader |-> [loader EXCEPT !.client = FALSE],
          calls |-> <<"loader.connect", "loader.load", "loader.disconnect">>]
    ELSE [raised |-> FALSE,
          value |-> [success |-> db_ok \/ Len(transformed_data.l) = 0,
                     records_processed |-> Len(transformed_data.l),
                     records_loaded |-> IF db_ok THEN Len(transformed_data.l) ELSE 0],
          loader |-> [loader EXCEPT !.client = FALSE],
          calls |-> <<"loader.connect", "loader.load", "loader.disconnect">>]

_finalize_stats(pipeline_stats, success, now) ==
    [k \in DOMAIN pipeline_stats \cup {"success"} |->
        CASE k = "end_time" -> now
          [] k = "duration_seconds" ->
                IF pipeline_stats.start_time # 0
                THEN now - pipeline_stats.start_time
                ELSE pipeline_stats.duration_seconds
          [] k = "success" -> success
          [] OTHER -> pipeline_stats[k]]

VARIABLES
    pc,         \* where the program is: which component runs, and its position
    flat_cfg,   \* Flattener: the configuration of the instance
    flat_in,    \* the payload handed to get_flattening_preview
    flat_out,   \* its return value: [done, flattened_data, statistics]
    par_kind,   \* parser under test: "json" (JsonParser) or "bson" (BsonParser)
    par_cfg,    \* its configuration
    par_in,     \* the raw_data handed to parse
    par_out,    \* [done |-> FALSE], or done with the Return/Raise of parse
    heap,       \* the metadata dicts, by reference
    clock,      \* datetime.now(), as a logical clock
    st_kind,    \* the stage called on its own
    st_cfg,     \* its configuration
    st_in,      \* the batch handed to transform
    st_out,     \* [done |-> FALSE], or done with what transform returned or raised
    fm,         \* FieldMapper: field_mappings, flags and reverse_mapping
    fm_calls,   \* number of add_mapping / remove_mapping calls made
    fm_in,      \* the batch handed to FieldMapper.transform
    fm_out,     \* [done |-> FALSE], or done with its result
    source,     \* ETLPipeline: what the topic or the collection holds
    parser,     \* self.parser: [kind, config]
    transformers,       \* self.transformers: sequence of [name, config]
    raw_data,           \* the locals of run()
    parsed_data,
    transformed_data,
    stage_i,            \* transformers applied so far by _transform_data
    pipeline_stats,     \* self.pipeline_stats
    result,             \* what run() returned
    target,             \* the batches the loader was handed
    pl_config,          \* the configuration file: [transformations]
    io                  \* [extractor, loader, calls made on them, runs, last]

flatVars == <<flat_cfg, flat_in, flat_out>>
parVars == <<par_kind, par_cfg, par_in, par_out>>
memVars == <<heap, clock>>
stVars == <<st_kind, st_cfg, st_in, st_out>>
fmVars == <<fm, fm_calls, fm_in, fm_out>>
plVars == <<source, parser, transformers, raw_data, parsed_data,
            transformed_data, stage_i, pipeline_stats, result, target,
            pl_config, io>>
vars == <<pc, flatVars, parVars, memVars, stVars, fmVars, plVars>>

FlatIdle ==
    /\ flat_cfg = FlattenerDefaults
    /\ flat_in = <<>>
    /\ flat_out = [done |-> FALSE]

ParIdle ==
    /\ par_kind = "none"
    /\ par_cfg = <<>>
    /\ par_in = None
    /\ par_out = [done |-> FALSE]

MemIdle == heap = <<>> /\ clock = 1

StIdle ==
    /\ st_kind = "none"
    /\ st_cfg = <<>>
    /\ st_in = None
    /\ st_out = [done |-> FALSE]

FmIdle ==
    /\ fm = FieldMapper(<<>>, TRUE, FALSE)
    /\ fm_calls = 0
    /\ fm_in = None
    /\ fm_out = [done |-> FALSE]

PlIdle ==
    /\ source = [type |-> "none", holds |-> <<>>]
    /\ parser = [kind |-> "none"]
    /\ transformers = <<>>
    /\ raw_data = None /\ parsed_data = None /\ transformed_data = None
    /\ stage_i = 0
    /\ pipeline_stats = PipelineStats0
    /\ result = None
    /\ target = <<>>
    /\ pl_config = [transformations |-> <<>>]
    /\ io = Io0(<<>>)

\* ------------------------------------------------------- Flattener, as a spec
FlatInit ==
    /\ pc = "flattener"
    /\ flat_cfg \in FlattenerConfigs
    /\ flat_in \in FlatPayloads
    /\ flat_out = [done |-> FALSE]
    /\ ParIdle /\ MemIdle /\ StIdle /\ FmIdle /\ PlIdle

\* Flattener.get_flattening_preview(sample_nested_data): the flattening of one
\* payload, as transform does it for each record of a batch
get_flattening_preview ==
    /\ pc = "flattener"
    /\ ~flat_out.done
    /\ LET r == _flatten_record(flat_in, flat_cfg)
       IN flat_out' = [done |-> TRUE, flattened_data |-> r.result,
                       statistics |-> r.stats]
    /\ UNCHANGED <<pc, flat_cfg, flat_in, parVars, memVars, stVars, fmVars, plVars>>

FlatNext == get_flattening_preview
FlatSpec == FlatInit /\ [][FlatNext]_vars

\* a value that is not a leaf of a single-level mapping on any reading: a
\* mapping with fields, or a sequence holding a mapping or a sequence
HasStructure(v) ==
    \/ IsDict(v) /\ Len(v.d) > 0
    \/ IsList(v) /\ \E j \in DOMAIN v.l : v.l[j].t \in {"dict", "list"}

\* C9: the output payload of the flattening stage is a single-level mapping,
\* whatever the payload and the configuration (max_depth, array policy,
\* preserve_arrays, custom rules): no output value is a mapping or a sequence
\* that contains further structure.
C9_OutputIsSingleLevel ==
    flat_out.done =>
        \A i \in DOMAIN flat_out.flattened_data :
            ~HasStructure(flat_out.flattened_data[i].v)

\* C10: for every record flattened, fields_created equals the number of
\* distinct fields of the flattened output payload.
C10_FieldsCreatedCountsOutputFields ==
    flat_out.done =>
        flat_out.statistics.fields_created = Len(flat_out.flattened_data)

\* ----------------------------------------------------- the parsers, as a spec
ParserInit ==
    /\ pc = "parser"
    /\ FlatIdle /\ MemIdle /\ StIdle /\ FmIdle /\ PlIdle
    /\ par_out = [done |-> FALSE]
    /\ \/ /\ par_kind = "json"
          /\ par_cfg \in [strict_mode : BOOLEAN, handle_malformed : BOOLEAN]
          /\ par_in \in {VList(l) : l \in ListsOf(JsonRawRecords)} \cup {VStr("not a list")}
       \/ /\ par_kind = "bson"
          /\ par_cfg \in [convert_objectid : BOOLEAN, convert_datetime : BOOLEAN,
                          preserve_id_field : BOOLEAN]
          /\ par_in \in {VList(l) : l \in ListsOf(MongoDocuments \cup {VStr("not a dict")})}
                        \cup {VStr("not a list")}

\* JsonParser.parse(raw_data)
JsonParse ==
    /\ pc = "parser" /\ par_kind = "json" /\ ~par_out.done
    /\ par_out' = [done |-> TRUE, res |-> JsonParser_parse(par_cfg, par_in, <<>>)]
    /\ UNCHANGED <<pc, par_kind, par_cfg, par_in, flatVars, memVars, stVars, fmVars, plVars>>

\* BsonParser.parse(raw_data)
BsonParse ==
    /\ pc = "parser" /\ par_kind = "bson" /\ ~par_out.done
    /\ par_out' = [done |-> TRUE, res |-> BsonParser_parse(par_cfg, par_in, <<>>)]
    /\ UNCHANGED <<pc, par_kind, par_cfg, par_in, flatVars, memVars, stVars, fmVars, plVars>>

ParserNext == JsonParse \/ BsonParse
ParserSpec == ParserInit /\ [][ParserNext]_vars

\* the fallback envelope of JsonParser: data holds raw_content, parse_error and
\* parsing_status = "failed", metadata is a mapping
IsJsonFallback(record) ==
    /\ IsDict(record) /\ DHas(record.d, "data") /\ DHas(record.d, "metadata")
    /\ IsDict(DGet(record.d, "data"))
    /\ DKeys(DGet(record.d, "data").d) = {"raw_content", "parse_error", "parsing_status"}
    /\ DGet(DGet(record.d, "data").d, "parsing_status") = VStr("failed")
    /\ DGet(record.d, "metadata").t = "ref"

\* C7: in non-strict mode JsonParser.parse never raises for a record that
\* cannot be parsed: it emits the fallback envelope at that record's position
\* and goes on with the rest of the batch.
C7_NonStrictParseEmitsFallback ==
    (par_kind = "json" /\ par_out.done /\ ~par_cfg.strict_mode
        /\ Parser_validate_input(par_in)) =>
        /\ ~par_out.res.raised
        /\ Len(par_out.res.value.l) = Len(par_in.l)
        /\ \A i \in DOMAIN par_in.l :
              JsonParser_parse_single_record(par_in.l[i].d, <<>>, par_cfg).raised
                  => IsJsonFallback(par_out.res.value.l[i])

\* C8: every record a parser emits satisfies the envelope invariant, so the
\* batch it returns passes BaseTransformer.validate_input.
C8_ParsedBatchIsValidInput ==
    (par_kind \in {"json", "bson"} /\ par_out.done /\ ~par_out.res.raised) =>
        validate_input(par_out.res.value)


\* ------------------------------------------------ one stage, called on its own
\* the batches of n records a caller may pass
StageBatches(n) ==
    {b \in [1..n -> UNION {StageRecords(i) : i \in 1..n}] :
        \A i \in 1..n : b[i] \in StageRecords(i)}

StageInit ==
    /\ pc = "stage"
    /\ FlatIdle /\ ParIdle /\ FmIdle /\ PlIdle
    /\ clock = 1
    /\ st_kind \in StageNames
    /\ st_cfg \in StageConfigs(st_kind)
    /\ st_out = [done |-> FALSE]
    /\ \/ st_in \in {None, VDict(<<>>)} /\ heap = <<>>
       \/ \E n \in 0..MaxBatch :
            /\ heap \in [1..n -> StageMetadata]
            /\ st_in \in {VList(b) : b \in StageBatches(n)}

\* what the caller of transform sees of the call r: the batch returned or the
\* exception, and the metadata dicts as the call left them
StageReturns(r) ==
    /\ st_out' = [done |-> TRUE,
                  res |-> IF r.raised THEN [raised |-> TRUE, error |-> r.error]
                          ELSE [raised |-> FALSE, value |-> r.value]]
    /\ heap' = r.heap
    /\ clock' = clock + ClockReads([name |-> st_kind], st_in)
    /\ UNCHANGED <<pc, st_kind, st_cfg, st_in, flatVars, parVars, fmVars, plVars>>

CallDataCleaner ==
    /\ pc = "stage" /\ st_kind = "data_cleaner" /\ ~st_out.done
    /\ StageReturns(DataCleaner_transform(st_cfg, st_in, heap, clock))

CallFlattener ==
    /\ pc = "stage" /\ st_kind = "flattener" /\ ~st_out.done
    /\ StageReturns(Flattener_transform(st_cfg, st_in, heap, clock))

CallFieldMapper ==
    /\ pc = "stage" /\ st_kind = "field_mapper" /\ ~st_out.done
    /\ StageReturns(FieldMapper_transform(st_cfg, st_in, heap, clock))

CallTypeConverter ==
    /\ pc = "stage" /\ st_kind = "type_converter" /\ ~st_out.done
    /\ StageReturns(TypeConverter_transform(st_cfg, st_in, heap, clock))

CallMetadataEnricher ==
    /\ pc = "stage" /\ st_kind = "metadata_enricher" /\ ~st_out.done
    /\ StageReturns(MetadataEnricher_transform(st_cfg, st_in, heap, clock))

StageNext ==
    \/ CallDataCleaner \/ CallFlattener \/ CallFieldMapper
    \/ CallTypeConverter \/ CallMetadataEnricher
StageSpec == StageInit /\ [][StageNext]_vars

\* the batch is no list, or one of its records is no mapping, lacks data or
\* metadata, or holds a data or a metadata that is no mapping
BreaksEnvelope(batch) ==
    \/ ~IsList(batch)
    \/ \E i \in DOMAIN batch.l :
          \/ ~IsDict(batch.l[i])
          \/ ~DHas(batch.l[i].d, "data")
          \/ ~DHas(batch.l[i].d, "metadata")
          \/ ~IsDict(DGet(batch.l[i].d, "data"))
          \/ DGet(batch.l[i].d, "metadata").t # "ref"

\* C4: each of the five stages rejects the whole call when the batch is not a
\* list or any one record breaks the envelope: transform raises the invalid
\* input error, returns no batch, and has touched no record (the valid records
\* of the batch are not processed either).
C4_StagesRejectBrokenBatch ==
    [][(pc = "stage" /\ ~st_out.done /\ st_out'.done /\ BreaksEnvelope(st_in)) =>
          /\ st_out'.res.raised
          /\ st_out'.res.error = InvalidInput
          /\ heap' = heap]_vars

\* a stage has rejected a batch whose first record is a valid envelope with
\* fields to process and whose second record breaks the envelope
C4_Witness ==
    /\ pc = "stage" /\ st_out.done /\ st_out.res.raised
    /\ IsList(st_in) /\ Len(st_in.l) >= 2
    /\ ~BreaksEnvelope(VList(<<st_in.l[1]>>))
    /\ Len(DGet(st_in.l[1].d, "data").d) > 0
    /\ BreaksEnvelope(VList(<<st_in.l[2]>>))

\* the errors of the contract: the shape error and the strict-mode failures
ContractErrors == {InvalidInput, InvalidEmail, InvalidPhone, ConversionFailed}

\* C5: a stage call that raises for a shape violation or for a strict-mode
\* failure on any record (the last one included) returns no output batch and
\* has appended no entry to transformations_applied of any record: the
\* metadata dicts are as they were before the call.
C5_RaisingStageLeavesNoTrace ==
    [][(pc = "stage" /\ ~st_out.done /\ st_out'.done /\ st_out'.res.raised
            /\ st_out'.res.error \in ContractErrors) =>
          /\ "value" \notin DOMAIN st_out'.res
          /\ heap' = heap]_vars

\* a strict type converter has raised on a batch of which only the last
\* record fails to convert
C5_Witness ==
    /\ pc = "stage" /\ st_kind = "type_converter" /\ st_out.done
    /\ st_out.res.raised /\ st_out.res.error = ConversionFailed
    /\ Len(st_in.l) >= 2
    /\ Raisers([i \in DOMAIN st_in.l |->
                  _convert_record_types(DGet(st_in.l[i].d, "data").d, st_cfg)])
          = {Len(st_in.l)}

\* ------------------------------------------------- the cleaner, as a spec
\* DataCleaner.transform called on one record, and called once more on the
\* batch it returned
CleanerInit ==
    /\ pc = "stage"
    /\ FlatIdle /\ ParIdle /\ FmIdle /\ PlIdle
    /\ clock = 1
    /\ st_kind = "data_cleaner"
    /\ st_cfg \in CleanerConfigs
    /\ st_out = [done |-> FALSE]
    /\ heap = <<(<<KV("source_type", VStr("kafka"))>>)>>
    /\ st_in \in CleanerBatches

\* cleaned_again = cleaner.transform(cleaned): the cleaner run on its own output
CleanAgain ==
    /\ pc = "stage" /\ st_kind = "data_cleaner"
    /\ st_out.done /\ ~st_out.res.raised
    /\ \E r \in {DataCleaner_transform(st_cfg, st_out.res.value, heap, clock)} :
          /\ st_out' = [done |-> TRUE,
                        res |-> IF r.raised THEN [raised |-> TRUE, error |-> r.error]
                                ELSE [raised |-> FALSE, value |-> r.value]]
          /\ heap' = r.heap
    /\ st_in' = st_out.res.value
    /\ pc' = "recleaned"
    /\ clock' = clock + 1
    /\ UNCHANGED <<st_kind, st_cfg, flatVars, parVars, fmVars, plVars>>

CleanerNext == CallDataCleaner \/ CleanAgain
CleanerSpec == CleanerInit /\ [][CleanerNext]_vars

\* the payload of record 1 of a batch
Payload1(batch) == DGet(batch.l[1].d, "data").d

\* the cleaning_stats of the last entry of record 1's transformations_applied
LastCleaningStats ==
    LET applied == DGet(heap[1], "transformations_applied").l
    IN applied[Len(applied)].cleaning_stats

\* C13: re-running the cleaner on its own output with the same configuration
\* changes nothing: the second run reports fields_trimmed = 0 and
\* nulls_standardized = 0 and returns the payloads the first run returned.
C13_CleaningIsIdempotent ==
    pc = "recleaned" =>
        /\ ~st_out.res.raised
        /\ LastCleaningStats.fields_trimmed = 0
        /\ LastCleaningStats.nulls_standardized = 0
        /\ Payload1(st_out.res.value) = Payload1(st_in)

\* the string value is empty once it is trimmed as configuration C trims
EmptyAfterTrim(v, C) ==
    IsStr(v) /\ (IF C.trim_whitespace THEN Strip(v.s) ELSE v.s) = ""

\* C14: with remove_empty_strings enabled, a string field that is empty after
\* cleaning is omitted from the cleaned payload: the output mapping does not
\* hold the field at all, not even with a null value.
C14_EmptyStringFieldIsOmitted ==
    (pc = "stage" /\ st_kind = "data_cleaner" /\ st_out.done
        /\ ~st_out.res.raised /\ st_cfg.remove_empty_strings) =>
        \A i \in DOMAIN Payload1(st_in) :
            EmptyAfterTrim(Payload1(st_in)[i].v, st_cfg) =>
                ~DHas(Payload1(st_out.res.value), Payload1(st_in)[i].k)

\* the text of a field as it reaches the email step: trimmed when trimming is
\* enabled
Trimmed(v, C) == IF C.trim_whitespace THEN Strip(v.s) ELSE v.s

\* the email field of the payload holds a text that reaches the email step (it
\* is no null sentinel that null standardization replaces) and does not match
\* the configured pattern
EmailMismatch(payload, C) ==
    /\ C.validate_emails /\ "email" \in C.validation_rules
    /\ DHas(payload, "email") /\ IsStr(DGet(payload, "email"))
    /\ ~(C.standardize_nulls /\ Trimmed(DGet(payload, "email"), C) \in C.null_values)
    /\ ~EmailPatternMatches(Strip(Lower(Trimmed(DGet(payload, "email"), C))))

\* C24: for an email field with email validation enabled and a pattern
\* configured, a value that does not match the pattern makes the cleaner raise
\* in strict mode; in non-strict mode the call returns, the value is passed
\* through as it reached the email step, validation_errors counts it and
\* emails_validated does not.
C24_EmailMismatchRaisesOrPassesThrough ==
    (pc = "stage" /\ st_kind = "data_cleaner" /\ st_out.done
        /\ EmailMismatch(Payload1(st_in), st_cfg)) =>
        IF st_cfg.strict_validation
        THEN st_out.res.raised /\ st_out.res.error = InvalidEmail
        ELSE /\ ~st_out.res.raised
             /\ LastCleaningStats.validation_errors >= 1
             /\ LastCleaningStats.emails_validated = 0
             /\ (~st_cfg.remove_empty_strings
                    \/ Trimmed(DGet(Payload1(st_in), "email"), st_cfg) # "") =>
                   DGet(Payload1(st_out.res.value), "email")
                      = VStr(Trimmed(DGet(Payload1(st_in), "email"), st_cfg))

\* ------------------------------------------------ the enricher, as a spec
\* MetadataEnricher.transform called on a batch of one record
EnricherInit ==
    /\ pc = "stage"
    /\ FlatIdle /\ ParIdle /\ FmIdle /\ PlIdle
    /\ clock = 1
    /\ st_kind = "metadata_enricher"
    /\ st_cfg \in EnricherConfigs
    /\ st_out = [done |-> FALSE]
    /\ heap \in {<<metadata>> : metadata \in EnricherMetadata}
    /\ st_in \in {VList(<<VDict(<<KV("data", VDict(p)), KV("metadata", VRef(1))>>)>>) :
                    p \in EnricherPayloads}

EnricherNext == CallMetadataEnricher
EnricherSpec == EnricherInit /\ [][EnricherNext]_vars

\* the enricher has returned the batch of one record
EnricherReturned ==
    pc = "stage" /\ st_kind = "metadata_enricher" /\ st_out.done /\ ~st_out.res.raised

\* the names of the fields the enricher stamps on a record with the given
\* metadata: the timestamps, the identifier and the provenance fields
StampedFields(E, metadata) ==
    (IF E.add_created_at THEN {E.created_at_field} ELSE {})
    \cup (IF E.add_processed_at THEN {E.processed_at_field} ELSE {})
    \cup (IF E.add_unique_id THEN {E.id_field} ELSE {})
    \cup (IF E.add_source_info THEN {"dataSource"} ELSE {})
    \cup (IF E.add_source_info /\ DHas(metadata, "topic")
              /\ DGetOr(metadata, "source_type", None) = VStr("kafka")
          THEN {"sourceTopic"} ELSE {})
    \cup (IF E.add_source_info /\ DHas(metadata, "document_id")
              /\ DGetOr(metadata, "source_type", None) = VStr("mongodb")
          THEN {"sourceDocumentId"} ELSE {})

\* C25: a static additional_metadata entry is added to the payload only if
\* the payload holds no field of that name after the earlier stages and the
\* enricher's own stamping; then it is added with its value. A field that is
\* there keeps its value: the input's, or the stamp.
C25_StaticEntriesNeverReplaceAField ==
    EnricherReturned =>
        LET given == Payload1(st_in)
            made == Payload1(st_out.res.value)
            stamped == StampedFields(st_cfg, heap[1])
        IN \A i \in DOMAIN st_cfg.additional_metadata :
              LET entry == st_cfg.additional_metadata[i]
              IN /\ DHas(made, entry.k)
                 /\ (~DHas(given, entry.k) /\ entry.k \notin stamped) =>
                        DGet(made, entry.k) = entry.v
                 /\ (DHas(given, entry.k) /\ entry.k \notin stamped) =>
                        DGet(made, entry.k) = DGet(given, entry.k)
                 /\ entry.k \in stamped => DGet(made, entry.k) # entry.v

\* the enricher has returned a record for which one static entry was added,
\* one met a field of the input, and one met a field the enricher had stamped
C25_Witness ==
    /\ EnricherReturned
    /\ LET given == Payload1(st_in)
           made == Payload1(st_out.res.value)
           static == st_cfg.additional_metadata
       IN /\ \E i \in DOMAIN static :
                ~DHas(given, static[i].k) /\ DGet(made, static[i].k) = static[i].v
          /\ \E i \in DOMAIN static :
                DHas(given, static[i].k) /\ static[i].k \notin StampedFields(st_cfg, heap[1])
                /\ DGet(made, static[i].k) = DGet(given, static[i].k)
          /\ \E i \in DOMAIN static :
                ~DHas(given, static[i].k) /\ static[i].k \in StampedFields(st_cfg, heap[1])
                /\ DGet(made, static[i].k) # static[i].v

\* C27: the enricher only adds fields: every field of a record's input payload
\* is in its output payload with the same value.
C27_EnricherOnlyAddsFields ==
    EnricherReturned =>
        \A i \in DOMAIN Payload1(st_in) :
            /\ DHas(Payload1(st_out.res.value), Payload1(st_in)[i].k)
            /\ DGet(Payload1(st_out.res.value), Payload1(st_in)[i].k)
                  = Payload1(st_in)[i].v

\* ------------------------------------------- the type converter, as a spec
\* TypeConverter.transform called on one record, over the target types, the
\* default tables and the values of the converted field
ConverterInit ==
    /\ pc = "stage"
    /\ FlatIdle /\ ParIdle /\ FmIdle /\ PlIdle
    /\ clock = 1
    /\ st_kind = "type_converter"
    /\ st_cfg \in ConverterConfigs
    /\ st_out = [done |-> FALSE]
    /\ heap = <<(<<KV("source_type", VStr("kafka"))>>)>>
    /\ st_in \in ConverterBatches

ConverterNext == CallTypeConverter
ConverterSpec == ConverterInit /\ [][ConverterNext]_vars

\* ------------------------------------- the rules of a converter, as a spec
\* the calls of add_conversion_rule and remove_conversion_rule on one converter
MaxRuleCalls == 2

\* the target types a caller may name
RuleTypes == ConverterTypes \cup {"Int", ""}

\* a converter as constructed; st_in is the log of the calls made on it
RulesInit ==
    /\ pc = "rules"
    /\ FlatIdle /\ ParIdle /\ FmIdle /\ PlIdle
    /\ clock = 1
    /\ st_kind = "type_converter"
    /\ st_cfg \in ConverterConfigs
    /\ st_out = [done |-> FALSE]
    /\ heap = <<>>
    /\ st_in = <<>>

AddConversionRule ==
    /\ pc = "rules" /\ Len(st_in) < MaxRuleCalls
    /\ \E field_name \in {"age", "name"}, target_type \in RuleTypes :
         \E r \in {add_conversion_rule(st_cfg, field_name, target_type)} :
            /\ st_cfg' = r.T
            /\ st_in' = Append(st_in, [call |-> "add", field_name |-> field_name,
                                       target_type |-> target_type,
                                       raised |-> r.raised])
            /\ st_out' = [done |-> TRUE,
                          res |-> IF r.raised
                                  THEN [raised |-> TRUE, error |-> r.error]
                                  ELSE [raised |-> FALSE, value |-> None]]
    /\ UNCHANGED <<pc, st_kind, flatVars, parVars, memVars, fmVars, plVars>>

RemoveConversionRule ==
    /\ pc = "rules" /\ Len(st_in) < MaxRuleCalls
    /\ \E field_name \in {"age", "name"} :
            /\ st_cfg' = remove_conversion_rule(st_cfg, field_name)
            /\ st_in' = Append(st_in, [call |-> "remove", field_name |-> field_name,
                                       target_type |-> "", raised |-> FALSE])
            /\ st_out' = [done |-> TRUE, res |-> [raised |-> FALSE, value |-> None]]
    /\ UNCHANGED <<pc, st_kind, flatVars, parVars, memVars, fmVars, plVars>>

RulesNext == AddConversionRule \/ RemoveConversionRule
RulesSpec == RulesInit /\ [][RulesNext]_vars

\* the last call of the log that took effect on the field, if any
LastEffective(log, field_name) ==
    LET S == {i \in DOMAIN log : log[i].field_name = field_name /\ ~log[i].raised}
    IN IF S = {} THEN <<>> ELSE <<log[Greatest(S)]>>

\* C23: add_conversion_rule with a target type outside int, float, bool, str,
\* datetime raises and leaves the conversion table as it was, and with one of
\* these types it sets the rule; so every rule that is in the table because of
\* an add_conversion_rule call has a supported target type.
C23_UnsupportedRuleIsRejected ==
    [][(pc = "rules" /\ Len(st_in') = Len(st_in) + 1
            /\ st_in'[Len(st_in')].call = "add") =>
          LET call == st_in'[Len(st_in')]
              supported == {"int", "float", "bool", "str", "datetime"}
          IN /\ call.raised <=> call.target_type \notin supported
             /\ call.raised =>
                   /\ st_cfg' = st_cfg
                   /\ st_out'.res.raised /\ st_out'.res.error = UnsupportedType
             /\ ~call.raised =>
                   /\ DGet(st_cfg'.type_conversions, call.field_name) = call.target_type
                   /\ st_cfg' = [st_cfg EXCEPT !.type_conversions =
                                    DSet(@, call.field_name, call.target_type)]
             /\ \A f \in {"age", "name"} :
                   \A e \in {LastEffective(st_in', f)} :
                       (e # <<>> /\ e[1].call = "add") =>
                           /\ DHas(st_cfg'.type_conversions, f)
                           /\ DGet(st_cfg'.type_conversions, f) = e[1].target_type
                           /\ e[1].target_type \in supported]_vars

\* a rule was added with a supported type, and the next call, which names an
\* unsupported type for the same field, was rejected
C23_Witness ==
    /\ pc = "rules" /\ Len(st_in) = 2
    /\ st_in[1].call = "add" /\ ~st_in[1].raised /\ st_in[1].field_name = "name"
    /\ st_in[2].call = "add" /\ st_in[2].raised /\ st_in[2].field_name = "name"
    /\ st_in[2].target_type = "decimal"
    /\ DGet(st_cfg.type_conversions, "name") = st_in[1].target_type

\* the target types _convert_value converts to with a failure branch
SupportedTypes == {"int", "float", "bool", "datetime"}

\* a converter call on one record has returned
ConverterReturned ==
    pc = "stage" /\ st_kind = "type_converter" /\ st_out.done /\ ~st_out.res.raised

\* of a converter call that returned: the number of failed conversions its
\* entry reports, and the input and output value of the field "age"
FailedReported ==
    LET applied == DGet(heap[1], "transformations_applied").l
    IN applied[Len(applied)].conversion_stats.failed
AgeTarget == DGet(st_cfg.type_conversions, "age")
AgeIn == DGet(DGet(st_in.l[1].d, "data").d, "age")
AgeOut == DGet(DGet(st_out.res.value.l[1].d, "data").d, "age")

\* C11 as stated: in non-strict mode a failed conversion of a field of the
\* table never raises and the field's output value is the default configured
\* for its target type, whatever the target type the table names.
C11_EveryFailedConversionYieldsDefault ==
    (pc = "stage" /\ st_kind = "type_converter" /\ st_out.done
        /\ ~st_cfg.strict_mode) =>
        /\ ~st_out.res.raised
        /\ (FailedReported = 1 /\ DHas(st_cfg.default_values, AgeTarget)) =>
              AgeOut = DGet(st_cfg.default_values, AgeTarget)

\* C11: in non-strict mode a failed conversion never raises; when the target
\* type is int, float, bool or datetime and default_values holds an entry for
\* it, the output value is that entry, and when the target type is one the
\* converter does not know, the input value passes through unchanged.
C11_FailedConversionYieldsDefault ==
    (pc = "stage" /\ st_kind = "type_converter" /\ st_out.done
        /\ ~st_cfg.strict_mode) =>
        /\ ~st_out.res.raised
        /\ FailedReported = 1 =>
              /\ (AgeTarget \in SupportedTypes
                     /\ DHas(st_cfg.default_values, AgeTarget)) =>
                    AgeOut = DGet(st_cfg.default_values, AgeTarget)
              /\ AgeTarget \notin SupportedTypes \cup {"str"} => AgeOut = AgeIn

\* a non-strict converter has failed to convert a non-blank string to int and
\* put the configured default, which is not the input value, in its place
C11_Witness ==
    /\ ConverterReturned /\ ~st_cfg.strict_mode
    /\ AgeTarget = "int" /\ AgeIn = VStr(" abc ")
    /\ FailedReported = 1
    /\ AgeOut = VInt(0 - 1)

\* C12: in strict mode a failed conversion to int, float, bool or datetime
\* raises: a strict call that returns a batch has recorded no failed
\* conversion and has put no default in place of a value.
C12_StrictFailureRaises ==
    (ConverterReturned /\ st_cfg.strict_mode /\ AgeTarget \in SupportedTypes) =>
        FailedReported = 0

\* ------------------------------------------------- the field mapper, as a spec
MapperBatches(n) ==
    {[i \in 1..n |-> VDict(<<KV("data", VDict(f[i])), KV("metadata", VRef(i))>>)] :
        f \in [1..n -> MapperPayloads]}

MapperInit ==
    /\ pc = "mapper"
    /\ FlatIdle /\ ParIdle /\ StIdle /\ PlIdle
    /\ clock = 1
    /\ fm \in {FieldMapper(fms, keep, cs) :
                  fms \in MapperTables, keep \in BOOLEAN, cs \in BOOLEAN}
    /\ fm_calls = 0
    /\ fm_out = [done |-> FALSE]
    /\ \E n \in 0..MaxBatch :
          /\ heap \in [1..n -> MapperMetadata]
          /\ fm_in \in {VList(b) : b \in MapperBatches(n)}

\* FieldMapper.add_mapping(source_type, target_field, source_fields)
AddMapping ==
    /\ pc = "mapper" /\ ~fm_out.done /\ fm_calls < MaxMutations
    /\ \E source_type \in {"kafka", "mongodb"}, target_field \in {"first_name", "name"},
          source_fields \in {<<"firstName">>, <<"a", "b">>} :
          fm' = add_mapping(fm, source_type, target_field, source_fields)
    /\ fm_calls' = fm_calls + 1
    /\ UNCHANGED <<pc, fm_in, fm_out, memVars, flatVars, parVars, stVars, plVars>>

\* FieldMapper.remove_mapping(source_type, target_field)
RemoveMapping ==
    /\ pc = "mapper" /\ ~fm_out.done /\ fm_calls < MaxMutations
    /\ \E source_type \in {"kafka", "mongodb"}, target_field \in {"first_name", "name"} :
          fm' = remove_mapping(fm, source_type, target_field)
    /\ fm_calls' = fm_calls + 1
    /\ UNCHANGED <<pc, fm_in, fm_out, memVars, flatVars, parVars, stVars, plVars>>

\* FieldMapper.transform(parsed_data)
MapFields ==
    /\ pc = "mapper" /\ ~fm_out.done
    /\ LET r == FieldMapper_transform(fm, fm_in, heap, clock)
       IN /\ fm_out' = [done |-> TRUE,
                        res |-> IF r.raised THEN [raised |-> TRUE, error |-> r.error]
                                ELSE [raised |-> FALSE, value |-> r.value]]
          /\ heap' = r.heap
    /\ clock' = clock + 1
    /\ UNCHANGED <<pc, fm, fm_calls, fm_in, flatVars, parVars, stVars, plVars>>

MapperNext == AddMapping \/ RemoveMapping \/ MapFields
MapperSpec == MapperInit /\ [][MapperNext]_vars

\* the target fields whose aliases, for the source type, hold field_name up to
\* letter case
AliasTargets(M, source_type, field_name) ==
    LET mapping == DGetOr(M.field_mappings, source_type, <<>>)
    IN {mapping[i].k : i \in {i \in DOMAIN mapping :
            \E j \in DOMAIN mapping[i].v :
                Lower(mapping[i].v[j]) = Lower(field_name)}}

\* C6: with case-insensitive matching, a payload field whose name equals a
\* configured alias up to letter case is renamed to the alias's target field:
\* the output payload of the record holds that target field (so the table
\* {"kafka": {"first_name": ["firstName"]}} turns {"firstName": "X"} of a kafka
\* record into {"first_name": "X"}).
C6_CaseInsensitiveAliasIsRenamed ==
    (pc = "mapper" /\ fm_out.done /\ ~fm_out.res.raised /\ ~fm.case_sensitive) =>
        \A i \in DOMAIN fm_in.l :
            LET source_type == SourceTypeKey(heap[DGet(fm_in.l[i].d, "metadata").id])
                payload == DGet(fm_in.l[i].d, "data").d
                mapped == DGet(fm_out.res.value.l[i].d, "data").d
            IN \A j \in DOMAIN payload :
                  LET targets == AliasTargets(fm, source_type, payload[j].k)
                  IN targets # {} => \E t \in targets : DHas(mapped, t)

\* the alias table of a source type, and the key an alias or a field name is
\* looked up by: itself, or lower-cased when matching is case-insensitive
MappingOf(M, source_type) == DGetOr(M.field_mappings, source_type, <<>>)
LookupKey(M, name) == IF M.case_sensitive THEN name ELSE Lower(name)

\* the places <<i, j>> of the table where alias j of target i has the key
AliasPairs(M, source_type, key) ==
    LET mapping == MappingOf(M, source_type)
    IN {p \in UNION {{<<i, j>> : j \in DOMAIN mapping[i].v} : i \in DOMAIN mapping} :
            LookupKey(M, mapping[p[1]].v[p[2]]) = key}

\* the place declared last, in the order of declaration of the table
LastPair(S) ==
    CHOOSE p \in S : \A q \in S : q[1] < p[1] \/ (q[1] = p[1] /\ q[2] <= p[2])

\* the target the table gives the key: that of the alias declared last
DeclaredTarget(M, source_type, key) ==
    MappingOf(M, source_type)[LastPair(AliasPairs(M, source_type, key))[1]].k

\* of record i of a mapper call that returned: its source type, the payload
\* handed in and the payload returned
MapperSourceType(i) == SourceTypeKey(heap[DGet(fm_in.l[i].d, "metadata").id])
MapperPayloadIn(i) == DGet(fm_in.l[i].d, "data").d
MapperPayloadOut(i) == DGet(fm_out.res.value.l[i].d, "data").d

MapperReturned == pc = "mapper" /\ fm_out.done /\ ~fm_out.res.raised

\* C15: when two source fields of one record map to the same target field,
\* the value kept under the target is that of the alias declared last in the
\* mapping table, whatever the order of the fields in the payload (checked
\* for case-sensitive mappers, where a field maps by its exact name).
C15_LastDeclaredAliasWins ==
    (MapperReturned /\ fm.case_sensitive) =>
        \A i \in DOMAIN fm_in.l :
            LET st == MapperSourceType(i)
                payload == MapperPayloadIn(i)
                mapped == {j \in DOMAIN payload : AliasPairs(fm, st, payload[j].k) # {}}
            IN \A j \in mapped :
                  LET t == DeclaredTarget(fm, st, payload[j].k)
                      same == {k \in mapped : DeclaredTarget(fm, st, payload[k].k) = t}
                      last == LastPair({LastPair(AliasPairs(fm, st, payload[k].k)) :
                                            k \in same})
                  IN (Cardinality(same) >= 2
                        /\ LastPair(AliasPairs(fm, st, payload[j].k)) = last) =>
                        DGet(MapperPayloadOut(i), t) = payload[j].v

\* C16: every field name of an output payload is a target field configured
\* for the record's source type or, only when keep_unmapped_fields is set, a
\* field name of the input payload that the table does not map (by exact name,
\* or up to letter case when matching is case-insensitive); without the flag
\* every unmapped field is dropped.
C16_OutputFieldsAreTargetsOrUnmapped ==
    MapperReturned =>
        \A i \in DOMAIN fm_in.l :
            LET st == MapperSourceType(i)
                mapping == MappingOf(fm, st)
                out == MapperPayloadOut(i)
            IN \A j \in DOMAIN out :
                  \/ \E t \in DOMAIN mapping : mapping[t].k = out[j].k
                  \/ /\ fm.keep_unmapped_fields
                     /\ DHas(MapperPayloadIn(i), out[j].k)
                     /\ AliasPairs(fm, st, LookupKey(fm, out[j].k)) = {}

\* C17: the reverse index always equals the index derived from the current
\* alias table: it holds exactly the source types of the table and, for each,
\* exactly the lookup keys of the aliases of the remaining targets, each key
\* once and mapped to its target (to the target declared last when several
\* targets claim the key); nothing survives of a removed or replaced mapping.
C17_ReverseIndexMatchesTable ==
    pc = "mapper" =>
        /\ Len(fm.reverse_mapping) = Len(fm.field_mappings)
        /\ DKeys(fm.reverse_mapping) = DKeys(fm.field_mappings)
        /\ \A s \in DOMAIN fm.field_mappings :
              LET st == fm.field_mappings[s].k
                  mapping == fm.field_mappings[s].v
                  index == DGet(fm.reverse_mapping, st)
                  keys == {LookupKey(fm, mapping[i].v[j]) :
                              <<i, j>> \in UNION {{<<i, j>> : j \in DOMAIN mapping[i].v} :
                                                      i \in DOMAIN mapping}}
              IN /\ {index[n].k : n \in DOMAIN index} = keys
                 /\ Len(index) = Cardinality(keys)
                 /\ \A n \in DOMAIN index :
                       index[n].v = DeclaredTarget(fm, st, index[n].k)

\* a mapping was replaced or removed by a call, and the index still holds
\* another alias
C17_Witness ==
    /\ pc = "mapper" /\ fm_calls > 0
    /\ fm.field_mappings \notin MapperTables
    /\ \E s \in DOMAIN fm.reverse_mapping : Len(fm.reverse_mapping[s].v) > 0

\* ------------------------------------------------------------ ETLPipeline.run
\* ETLPipeline.__init__ for a configuration: the source, the parser of its
\* type and the transformers the configuration resolves to
\* the limits a configuration file gives the extractor: none, 0 (no limit), 1
ExtractorLimits == {<<>>, <<0>>, <<1>>}

Init ==
    /\ pc = "ready"
    /\ FlatIdle /\ ParIdle /\ StIdle /\ FmIdle /\ MemIdle
    /\ pl_config \in {[transformations |-> transformations] :
                        transformations \in TransformationsConfigs}
    /\ transformers =
          _initialize_transformers(get_transformer_configs(pl_config.transformations))
    /\ \/ /\ source \in {[type |-> "kafka", holds |-> l] : l \in ListsOf(KafkaMessages)}
          /\ parser \in {[kind |-> "json",
                          config |-> [strict_mode |-> sm, handle_malformed |-> TRUE]] :
                            sm \in BOOLEAN}
          /\ io = Io0(<<>>)
       \/ /\ source \in {[type |-> "mongodb", holds |-> l] : l \in ListsOf(MongoDocuments)}
          /\ parser = [kind |-> "bson",
                       config |-> [convert_objectid |-> TRUE, convert_datetime |-> TRUE,
                                   preserve_id_field |-> TRUE]]
          /\ io \in {Io0(limit) : limit \in ExtractorLimits}
    /\ raw_data = None /\ parsed_data = None /\ transformed_data = None
    /\ stage_i = 0
    /\ pipeline_stats = PipelineStats0
    /\ result = None
    /\ target = <<>>

idleVars == <<flatVars, parVars, stVars, fmVars>>

\* the except clause of run(): the error is recorded and run returns failure
Failed(error) ==
    /\ pipeline_stats' =
          _finalize_stats([pipeline_stats EXCEPT !.errors = Append(@, error)],
                          FALSE, clock)
    /\ result' = [success |-> FALSE, error |-> error,
                  message |-> "ETL pipeline failed"]
    /\ clock' = clock + 1
    /\ pc' = "done"

\* run(), up to the call of _extract_data
Run ==
    /\ pc = "ready"
    /\ pipeline_stats' = [pipeline_stats EXCEPT !.start_time = clock]
    /\ clock' = clock + 1
    /\ pc' = "extract"
    /\ io' = [io EXCEPT !.runs = @ + 1, !.last = "run"]
    /\ UNCHANGED <<heap, source, parser, transformers, raw_data, parsed_data,
                   transformed_data, stage_i, result, target, pl_config, idleVars>>

\* _extract_data: connect, extract, disconnect; the connection may fail
ExtractData ==
    /\ pc = "extract"
    /\ \E connect \in ConnectOutcomes :
       \E r \in {_extract_data(io.extractor, source.type, source.holds, connect)} :
          /\ io' = [io EXCEPT !.extractor = r.extractor, !.calls = @ \o r.calls]
          /\ IF r.raised
             THEN /\ Failed(r.error)
                  /\ UNCHANGED raw_data
             ELSE /\ raw_data' = r.value
                  /\ pipeline_stats' =
                        [pipeline_stats EXCEPT !.records_extracted = Len(r.value.l)]
                  /\ pc' = "parse"
                  /\ UNCHANGED <<clock, result>>
    /\ UNCHANGED <<heap, source, parser, transformers, parsed_data,
                   transformed_data, stage_i, target, pl_config, idleVars>>

\* _parse_data, and the first line of _transform_data
ParseData ==
    /\ pc = "parse"
    /\ \E r \in {_parse_data(parser, raw_data, heap)} :
          /\ heap' = r.heap
          /\ IF r.raised
             THEN /\ Failed(r.error)
                  /\ UNCHANGED <<parsed_data, transformed_data>>
             ELSE /\ parsed_data' = r.value
                  /\ transformed_data' = r.value
                  /\ pipeline_stats' =
                        [pipeline_stats EXCEPT !.records_parsed = Len(r.value.l)]
                  /\ pc' = "transform"
                  /\ UNCHANGED <<clock, result>>
    /\ UNCHANGED <<source, parser, transformers, raw_data, stage_i, target,
                   pl_config, io, idleVars>>

\* _transform_data: the next transformer of the loop; after the last one,
\* records_transformed is set and the method returns
TransformData ==
    /\ pc = "transform" /\ stage_i < Len(transformers)
    /\ \E transformer \in {transformers[stage_i + 1]} :
       \E r \in {_transform_data_iter(transformer, transformed_data, heap, clock)} :
          /\ heap' = r.heap
          /\ IF r.raised
             THEN /\ Failed(r.error)
                  /\ UNCHANGED <<transformed_data, stage_i>>
             ELSE /\ transformed_data' = r.value
                  /\ stage_i' = stage_i + 1
                  /\ clock' = clock + ClockReads(transformer, transformed_data)
                  /\ IF stage_i + 1 = Len(transformers)
                     THEN /\ pc' = "load"
                          /\ pipeline_stats' =
                                [pipeline_stats EXCEPT
                                    !.records_transformed = Len(r.value.l)]
                     ELSE UNCHANGED <<pc, pipeline_stats>>
                  /\ UNCHANGED result
    /\ UNCHANGED <<source, parser, transformers, raw_data, parsed_data, target,
                   pl_config, io, idleVars>>

\* _load_data and the rest of run(): connect, load, disconnect; the connection
\* may fail, and the database may refuse the batches (load then reports it)
LoadData ==
    /\ pc = "load"
    /\ \E connect \in ConnectOutcomes, db_ok \in BOOLEAN :
       \E r \in {_load_data(io.loader, transformed_data, connect, db_ok)} :
          /\ io' = [io EXCEPT !.loader = r.loader, !.calls = @ \o r.calls]
          /\ IF r.raised
             THEN /\ Failed(r.error)
                  /\ UNCHANGED target
             ELSE /\ target' = Append(target, transformed_data)
                  /\ pipeline_stats' =
                        _finalize_stats(
                           [pipeline_stats EXCEPT
                               !.records_loaded = r.value.records_loaded],
                           TRUE, clock)
                  /\ result' = [success |-> TRUE, load_result |-> r.value,
                                message |-> "ETL pipeline completed successfully"]
                  /\ clock' = clock + 1
                  /\ pc' = "done"
    /\ UNCHANGED <<heap, source, parser, transformers, raw_data, parsed_data,
                   transformed_data, stage_i, pl_config, idleVars>>

\* the calls of run() and of dry_run() a pipeline object gets
MaxRuns == 2
MaxDryRuns == 1

\* run() called again on the pipeline object: the locals of the earlier call
\* are gone, self.pipeline_stats is the dict __init__ made
RunAgain ==
    /\ pc = "done" /\ io.runs < MaxRuns
    /\ pipeline_stats' = [pipeline_stats EXCEPT !.start_time = clock]
    /\ clock' = clock + 1
    /\ pc' = "extract"
    /\ io' = [io EXCEPT !.runs = @ + 1, !.last = "run"]
    /\ raw_data' = None /\ parsed_data' = None /\ transformed_data' = None
    /\ stage_i' = 0
    /\ result' = None
    /\ UNCHANGED <<heap, source, parser, transformers, target, pl_config, idleVars>>

\* dry_run(max_records), called before a run() or after one has returned
DryRun ==
    /\ pc \in {"ready", "done"} /\ io.dry_runs < MaxDryRuns
    /\ \E connect \in ConnectOutcomes, max_records \in {1, 10} :
       \E r \in {dry_run(io.extractor, source.type, source.holds, parser,
                         transformers, heap, clock, connect, max_records)} :
          /\ io' = [io EXCEPT !.extractor = r.extractor, !.calls = @ \o r.calls,
                              !.dry_runs = @ + 1, !.last = "dry_run",
                              !.dry_result = r.result]
          /\ heap' = r.heap
          /\ clock' = r.now
    /\ UNCHANGED <<pc, source, parser, transformers, raw_data, parsed_data,
                   transformed_data, stage_i, pipeline_stats, result, target,
                   pl_config, idleVars>>

Next == Run \/ ExtractData \/ ParseData \/ TransformData \/ LoadData
Spec == Init /\ [][Next]_vars

\* a pipeline object that is used more than once
RunsNext == Next \/ RunAgain \/ DryRun

RunsSpec == Init /\ [][RunsNext]_vars

\* the class of a transformer, as its entries name it
ClassName(name) ==
    CASE name = "data_cleaner" -> "DataCleaner"
      [] name = "flattener" -> "Flattener"
      [] name = "field_mapper" -> "FieldMapper"
      [] name = "type_converter" -> "TypeConverter"
      [] name = "metadata_enricher" -> "MetadataEnricher"

\* the chain from transformer k on, applied to batch; None when a stage raises
RECURSIVE ChainFrom(_, _, _, _)
ChainFrom(k, batch, h, now) ==
    IF k > Len(transformers) THEN batch
    ELSE LET r == transform(transformers[k], batch, h, now)
         IN IF r.raised THEN None ELSE ChainFrom(k + 1, r.value, r.heap, now + 1)

\* a payload without the fields the enricher stamps with the time of the call
Unstamped(data) == DDel(DDel(data, "processedAt"), "recordId")

\* the metadata dicts as the parser made them
ParsedHeap == [n \in DOMAIN heap |-> DDel(heap[n], "transformations_applied")]

\* C1: when the chain completes, the batch it returns has as many records as
\* the parsed batch, and the record at position i is derived from the parsed
\* record at position i: it carries that record's metadata dict, and its
\* payload is the payload the chain gives for that record alone.
C1_ChainPreservesLengthAndOrder ==
    (pc \in {"load", "done"} /\ stage_i = Len(transformers)) =>
        /\ Len(transformed_data.l) = Len(parsed_data.l)
        /\ \A i \in DOMAIN parsed_data.l :
              /\ DGet(transformed_data.l[i].d, "metadata")
                    = DGet(parsed_data.l[i].d, "metadata")
              /\ LET alone == ChainFrom(1, VList(<<parsed_data.l[i]>>), ParsedHeap, 1)
                 IN /\ IsList(alone)
                    /\ Unstamped(DGet(transformed_data.l[i].d, "data").d)
                          = Unstamped(DGet(alone.l[1].d, "data").d)

\* the chain has completed on a batch of two or more records with different
\* payloads
C1_Witness ==
    /\ pc = "load" /\ stage_i = Len(transformers)
    /\ Len(parsed_data.l) >= 2
    /\ DGet(parsed_data.l[1].d, "data") # DGet(parsed_data.l[2].d, "data")

\* C2: when the transform of a stage of the chain raises, the run ends there:
\* no later stage is applied (the batch and the metadata stay as they were),
\* the error is the run's error, and the loader is never handed the batch.
C2_StageFailureAbortsChain ==
    /\ [][(pc = "transform" /\ stage_i < Len(transformers)
            /\ transform(transformers[stage_i + 1], transformed_data, heap,
                         clock).raised) =>
            /\ pc' = "done"
            /\ result' =
                  [success |-> FALSE,
                   error |-> "Data transformation failed: "
                             \o transform(transformers[stage_i + 1],
                                          transformed_data, heap, clock).error,
                   message |-> "ETL pipeline failed"]
            /\ stage_i' = stage_i
            /\ transformed_data' = transformed_data
            /\ heap' = heap
            /\ target' = target]_vars
    /\ []((pc = "done" /\ stage_i < Len(transformers)) =>
            /\ ~result.success
            /\ target = <<>>
            /\ pipeline_stats.records_loaded = 0)

\* a run has failed in the chain after at least one stage was applied
C2_Witness ==
    /\ pc = "done" /\ ~result.success
    /\ stage_i >= 1 /\ stage_i < Len(transformers)
    /\ Len(transformed_data.l) >= 1

TransformationsApplied(metadata) ==
    DGetOr(metadata, "transformations_applied", VList(<<>>)).l

IsPrefix(s, t) == Len(s) <= Len(t) /\ \A k \in DOMAIN s : s[k] = t[k]

\* C3: transformations_applied is append-only and ordered: once stage_i
\* stages have been applied, every record's list holds exactly stage_i
\* entries, one per stage in the order of execution, and no step of the run
\* removes or reorders an entry (the list before a step is a prefix of the
\* list after it).
C3_TransformationsAppliedIsAppendOnly ==
    /\ []((pc \in {"transform", "load", "done"} /\ IsList(parsed_data)) =>
            \A i \in DOMAIN parsed_data.l :
                LET applied == TransformationsApplied(
                                  heap[DGet(parsed_data.l[i].d, "metadata").id])
                IN /\ Len(applied) = stage_i
                   /\ \A k \in 1..stage_i :
                         applied[k].transformer = ClassName(transformers[k].name))
    /\ [][\A n \in DOMAIN heap :
            /\ n \in DOMAIN heap'
            /\ IsPrefix(TransformationsApplied(heap[n]),
                        TransformationsApplied(heap'[n]))]_vars

\* a run has succeeded on a batch of two or more records
C3_Witness ==
    /\ pc = "done" /\ result.success
    /\ Len(parsed_data.l) >= 2
    /\ stage_i = Len(transformers)

\* the classes of the stages in the order clean, flatten, map fields, convert
\* types, enrich
StageOrder ==
    <<"DataCleaner", "Flattener", "FieldMapper", "TypeConverter",
      "MetadataEnricher">>

\* C18: the chain holds and applies the stages in the order clean, flatten,
\* map fields, convert types, enrich, whatever order the configuration lists
\* them in: the entries of every record name the first stage_i stages of that
\* order, and field mapping runs before type conversion, so that once a
\* strict converter with a rule for "age" has run, every "age" field, the
\* ones renamed by the mapper included, holds an int or null.
C18_StagesRunInFixedOrder ==
    pc # "ready" =>
        /\ [k \in DOMAIN transformers |-> ClassName(transformers[k].name)] = StageOrder
        /\ (pc \in {"transform", "load", "done"} /\ IsList(parsed_data)) =>
              \A i \in DOMAIN parsed_data.l :
                  LET applied == TransformationsApplied(
                                    heap[DGet(parsed_data.l[i].d, "metadata").id])
                  IN [k \in DOMAIN applied |-> applied[k].transformer]
                        = SubSeq(StageOrder, 1, stage_i)
        /\ (stage_i >= 4 /\ transformers[4].config.strict_mode
                /\ DHas(transformers[4].config.type_conversions, "age")) =>
              \A i \in DOMAIN transformed_data.l :
                  LET data == DGet(transformed_data.l[i].d, "data").d
                  IN DHas(data, "age") => DGet(data, "age").t \in {"int", "null"}

\* a run whose configuration lists the type converter before the field mapper
\* has failed in the converter, on a field that the mapper had renamed to the
\* name of the conversion rule
C18_Witness ==
    /\ pc = "done" /\ ~result.success
    /\ stage_i = 3
    /\ result.error = "Data transformation failed: " \o ConversionFailed
    /\ \E i \in DOMAIN parsed_data.l :
          /\ DHas(DGet(parsed_data.l[i].d, "data").d, "customer_age")
          /\ ~DHas(DGet(parsed_data.l[i].d, "data").d, "age")
          /\ DHas(DGet(transformed_data.l[i].d, "data").d, "age")


\* the source_type of a metadata dict: <<value>>, or <<>> when it has none
SourceTypeOf(metadata) ==
    IF DHas(metadata, "source_type") THEN <<DGet(metadata, "source_type")>> ELSE <<>>

\* C19: metadata.source_type is read-only for the stages: a call of any of
\* the five stages, returning or raising, leaves the source_type of every
\* metadata dict as it was (absent stays absent), and each record returned
\* carries the metadata dict of the input record at its position.
C19_SourceTypeIsReadOnly ==
    [][(pc = "stage" /\ ~st_out.done /\ st_out'.done) =>
          /\ DOMAIN heap' = DOMAIN heap
          /\ \A n \in DOMAIN heap : SourceTypeOf(heap'[n]) = SourceTypeOf(heap[n])
          /\ ~st_out'.res.raised =>
                /\ Len(st_out'.res.value.l) = Len(st_in.l)
                /\ \A i \in DOMAIN st_in.l :
                      DGet(st_out'.res.value.l[i].d, "metadata")
                          = DGet(st_in.l[i].d, "metadata")]_vars

\* the enricher has returned a batch of two records, one from kafka and one
\* without a source_type: it wrote "unknown" into the payload of the second,
\* whose metadata has the stage's entry and still no source_type
C19_Witness ==
    /\ pc = "stage" /\ st_kind = "metadata_enricher" /\ st_cfg.add_source_info
    /\ st_out.done /\ ~st_out.res.raised
    /\ Len(st_out.res.value.l) = 2
    /\ SourceTypeOf(heap[DGet(st_out.res.value.l[1].d, "metadata").id])
          = <<VStr("kafka")>>
    /\ LET record == st_out.res.value.l[2].d
           metadata == heap[DGet(record, "metadata").id]
       IN /\ DGet(DGet(record, "data").d, "dataSource") = VStr("unknown")
          /\ SourceTypeOf(metadata) = <<>>
          /\ Len(TransformationsApplied(metadata)) = 1


\* ------------------------------------ one stage, with the payloads as objects
\* a caller's batch of one to MaxBatch records over payload and metadata dicts
ObjectsInit ==
    /\ pc = "stage"
    /\ FlatIdle /\ ParIdle /\ FmIdle /\ PlIdle
    /\ clock = 1
    /\ st_kind \in StageNames
    /\ st_cfg \in StageConfigs(st_kind)
    /\ st_out = [done |-> FALSE]
    /\ \E n \in 1..MaxBatch :
          /\ heap \in {metadata \o payloads :
                          metadata \in [1..n -> StageMetadata],
                          payloads \in [1..n -> StagePayloads]}
          /\ st_in = VList([i \in 1..n |->
                          VDict(<<KV("data", VRef(n + i)), KV("metadata", VRef(i))>>)])

\* transform(parsed_data) of the stage, called on the batch
CallOnObjects ==
    /\ pc = "stage" /\ ~st_out.done
    /\ \E r \in {transform_objects([name |-> st_kind, config |-> st_cfg],
                                   st_in, heap, clock)} :
          /\ st_out' = [done |-> TRUE,
                        res |-> IF r.raised
                                THEN [raised |-> TRUE, error |-> r.error]
                                ELSE [raised |-> FALSE, value |-> r.value]]
          /\ heap' = r.heap
    /\ clock' = clock + ClockReads([name |-> st_kind], Payloads(st_in, heap))
    /\ UNCHANGED <<pc, st_kind, st_cfg, st_in, flatVars, parVars, fmVars, plVars>>

ObjectsNext == CallOnObjects
ObjectsSpec == ObjectsInit /\ [][ObjectsNext]_vars

\* the payload objects of a batch
PayloadIds(batch) == {DGet(batch.l[i].d, "data").id : i \in DOMAIN batch.l}

IsSingleLevel(payload) ==
    \A i \in DOMAIN payload : payload[i].v.t \notin {"dict", "list"}

\* the fields of payload that a custom rule of F names
CustomFields(payload, F) ==
    {i \in DOMAIN payload : DHas(F.custom_flatteners, payload[i].k)}

\* payload with its null fields kept, left out or rewritten to "" as the null
\* policy of F says
WithNullPolicy(payload, F) ==
    LET kept == SelectSeq(payload,
                    LAMBDA item : ~(IsNone(item.v) /\ F.null_value_handling = "remove"))
    IN [i \in DOMAIN kept |->
            IF IsNone(kept[i].v) /\ F.null_value_handling = "empty_string"
            THEN KV(kept[i].k, VStr(""))
            ELSE kept[i]]

\* C21 as stated: flattening a payload that is already a single-level mapping
\* returns a payload equal to the input, with the same field names and the
\* same values.
C21_SingleLevelPayloadIsReturnedUnchanged ==
    (pc = "flattener" /\ flat_out.done /\ IsSingleLevel(flat_in)) =>
        flat_out.flattened_data = flat_in

\* C21, amended: flattening a single-level payload with a max_depth of at
\* least 1 and no custom rule on any of its fields returns the fields that are
\* not null with their names, values and order; a null field follows the null
\* policy (kept, left out, or rewritten to the empty string), so under "keep"
\* the output equals the input.
C21_SingleLevelPayloadFollowsNullPolicy ==
    (pc = "flattener" /\ flat_out.done /\ IsSingleLevel(flat_in)
        /\ flat_cfg.max_depth >= 1 /\ CustomFields(flat_in, flat_cfg) = {}) =>
        /\ flat_out.flattened_data = WithNullPolicy(flat_in, flat_cfg)
        /\ flat_cfg.null_value_handling = "keep" => flat_out.flattened_data = flat_in

\* a single-level payload of a null and a text field has been flattened under
\* the "keep" policy, with custom rules that name none of its fields
C21_Witness ==
    /\ pc = "flattener" /\ flat_out.done /\ IsSingleLevel(flat_in)
    /\ flat_cfg.max_depth >= 1 /\ CustomFields(flat_in, flat_cfg) = {}
    /\ flat_cfg.null_value_handling = "keep"
    /\ \E i, j \in DOMAIN flat_in : IsNone(flat_in[i].v) /\ flat_in[j].v.t = "str"
    /\ flat_out.flattened_data = flat_in


RECURSIVE Levels(_)
\* the number of levels of mappings with fields nested in a value; a sequence
\* is no level of its own, its elements are at the level of the sequence
Levels(v) ==
    CASE IsDict(v) /\ Len(v.d) > 0 ->
            1 + Greatest({Levels(v.d[i].v) : i \in DOMAIN v.d})
      [] IsList(v) ->
            Greatest({0} \cup {Levels(v.l[i]) : i \in DOMAIN v.l})
      [] OTHER -> 0

RECURSIVE CutOffs(_, _, _, _, _)
\* the mappings of a payload that lie at level max_depth, each with the field
\* name it has there, its text and the payload field it belongs to; sequences
\* are followed under the "index" policy
CutOffs(v, name, root, depth, F) ==
    CASE IsDict(v) /\ Len(v.d) > 0 /\ depth + 1 >= F.max_depth ->
            {[path |-> name, text |-> PyStr(v), root |-> root]}
      [] IsDict(v) /\ Len(v.d) > 0 /\ depth + 1 < F.max_depth ->
            UNION {CutOffs(v.d[i].v, name \o F.separator \o v.d[i].k, root,
                           depth + 1, F) : i \in DOMAIN v.d}
      [] IsList(v) /\ F.array_handling = "index" /\ ~F.preserve_arrays ->
            UNION {CutOffs(v.l[i],
                           name \o F.array_index_format.pre \o ToString(i - 1)
                                \o F.array_index_format.post,
                           root, depth, F) : i \in DOMAIN v.l}
      [] OTHER -> {}

Disabled(name) ==
    /\ DHas(pl_config.transformations, name)
    /\ ~DGet(pl_config.transformations, name).enabled

\* C26: a transformer whose entry in the configuration file sets enabled to
\* false is not in the chain and is not applied: self.transformers holds the
\* stages that are not switched off, in the default order, and no record's
\* transformations_applied names the class of a stage that is switched off.
C26_DisabledStageIsNotInChain ==
    /\ [k \in DOMAIN transformers |-> transformers[k].name]
          = SelectSeq(default_order, LAMBDA name : ~Disabled(name))
    /\ (pc \in {"transform", "load", "done"} /\ IsList(parsed_data)) =>
          \A i \in DOMAIN parsed_data.l :
              LET applied == TransformationsApplied(
                                heap[DGet(parsed_data.l[i].d, "metadata").id])
              IN \A k \in DOMAIN applied :
                    \A name \in StageNames :
                        Disabled(name) => applied[k].transformer # ClassName(name)

\* the disconnect that closes what a connect opened
DisconnectOf(call) ==
    IF call = "extractor.connect" THEN "extractor.disconnect" ELSE "loader.disconnect"

\* run() has returned and nothing was called on the pipeline since
RunReturned == pc = "done" /\ io.last = "run"

C29_DryRunRestoresLimit ==
    [][io'.dry_runs # io.dry_runs =>
          LimitOf(io'.extractor) = LimitOf(io.extractor)]_vars

\* the step at which the run that has returned failed
FailedAt ==
    IF raw_data = None THEN "extract"
    ELSE IF parsed_data = None THEN "parse"
    ELSE IF stage_i < Len(transformers) THEN "transform"
    ELSE "load"

\* C30: the statistics of a run that failed describe that run alone, however
\* many runs the pipeline object made before: errors holds the error of this
\* run and nothing else, and the counters of the steps after the failing one
\* are 0.
C30_StatsDescribeTheRunOnly ==
    (RunReturned /\ ~result.success) =>
        /\ pipeline_stats.errors = <<result.error>>
        /\ FailedAt = "extract" => pipeline_stats.records_parsed = 0
        /\ FailedAt \in {"extract", "parse"} =>
              pipeline_stats.records_transformed = 0
        /\ FailedAt \in {"extract", "parse", "transform"} =>
              pipeline_stats.records_loaded = 0
====
